---- MODULE Spec2Model ----
(***************************************************************************)
(* Bot lifecycle engine of the Sapine bot hosting API (src/app/bots.py,    *)
(* src/app/docker.py, src/app/utils.py, src/app/models.py,                 *)
(* src/app/main.py).                                                       *)
(*                                                                         *)
(* The persistent state is the bots table, the Docker daemon's containers  *)
(* and the per-bot storage directories.  None of it lives in the server    *)
(* process, and no handler takes a lock or a SELECT ... FOR UPDATE, so     *)
(* requests served by different server workers interleave wherever a       *)
(* handler talks to the database, the daemon or the file system.  Each     *)
(* handler is therefore a short sequence of steps of one worker.           *)
(*                                                                         *)
(*   Spec        one worker: requests are served one after the other       *)
(*   ConcSpec    two workers serving requests on the same bots             *)
(*   QuotaSpec   two workers creating and deleting bots                    *)
(*   UploadSpec  one worker taking uploads of every kind                   *)
(*   DriftSpec   one worker, a daemon and a file system that change        *)
(*   KeepSpec    one worker, directories that may hold .gitkeep            *)
(*   RaceSpec    two workers, a start beside a delete                      *)
(*   CreateSpec  one worker creating bots with start commands              *)
(*   LogSpec     one server process with a log subscriber (sockets.py)     *)
(*   LogFairSpec LogSpec under the scheduling of the event loop            *)
(*   UtilSpec    the functions of utils.py applied to inputs               *)
(***************************************************************************)
EXTENDS Integers, Sequences, FiniteSets, TLC

\* ------------------------------------------------------------ bounds
\* bot ids 1..cap are handed out, then POST /bots is cut off
MaxBotId == 1          \* Spec
MaxConcBotId == 1      \* ConcSpec
MaxQuotaBotId == 2     \* QuotaSpec

MaxDriftBotId == 1     \* DriftSpec
MaxKeepBotId == 1      \* KeepSpec
MaxRaceBotId == 1      \* RaceSpec
MaxUploadBotId == 1    \* UploadSpec
MaxLogBotId == 1       \* LogSpec, LogFairSpec
MaxCreateBotId == 2    \* CreateSpec
MaxLogLines == 2       \* lines a sandbox writes to its log
\* ------------------------------------------------------------ constants
None == 0              \* a nullable column left unset; "no value"

Workers == {"w1", "w2"}
UserIds == {1, 2}
\* in Spec user 1 is the tenant who creates bots; user 2 owns none and sends
\* every request on the bots of user 1
Tenants == {1}

BotStatus == {"CREATED", "RUNNING", "STOPPED", "CRASHED"}
BotRuntime == {"python", "node"}
SourceType == {"zip", "file"}

\* plans inserted by startup_event; the ids are the serial primary keys
FreeMaxBots == 1
BasicMaxBots == 3
ProMaxBots == 10
Plans == (1 :> [name |-> "Free", max_bots |-> FreeMaxBots, ram_limit |-> "256m"])
      @@ (2 :> [name |-> "Basic", max_bots |-> BasicMaxBots, ram_limit |-> "512m"])
      @@ (3 :> [name |-> "Pro", max_bots |-> ProMaxBots, ram_limit |-> "1g"])

VARIABLES
    bots,        \* bots table: id -> row
    nextBotId,   \* next value of the bots.id serial
    containers,  \* Docker daemon: container id -> [name, state, exit_code, log]
    nextCid,     \* next container id the daemon hands out
    dirs,        \* BOT_STORAGE_PATH: bot id -> entries of <base>/<id>
    req,         \* per worker: the request it is serving and where it stands
    last,        \* the response sent by the step just taken, if it sent one
    cycle        \* per bot: how far a run of start, stop, start has come

vars == <<bots, nextBotId, containers, nextCid, dirs, req, last, cycle>>

\* a request in service: the operation, the caller, the bot id, the handle
\* and status the session read from the row (h, was), the driver calls
\* made so far and whether the daemon failed one of them (fault); for a log
\* session, how many lines its follow iterator has yielded (pos) and whether
\* the subscriber has hung up (gone)
Idle == [pc |-> "idle", op |-> "none", user |-> None, bot |-> None,
         h |-> None, was |-> "none", reload |-> FALSE, body |-> None,
         fault |-> FALSE, calls |-> <<>>, pos |-> 0, gone |-> FALSE]

\* a response: the request it answers, the status code, and from the
\* request record the status read at its start, the driver calls, the fault;
\* listing is the body of GET /bots: bot id -> the status shown
NoResponse == [op |-> "none", user |-> None, bot |-> None, code |-> None,
               was |-> "none", fault |-> FALSE, calls |-> <<>>,
               listing |-> <<>>, audit |-> <<>>]

NoCycle == [phase |-> 0, h |-> None]

Init ==
    /\ bots = <<>>
    /\ nextBotId = 1
    /\ containers = <<>>
    /\ nextCid = 1
    /\ dirs = <<>>
    /\ req = [w \in Workers |-> Idle]
    /\ last = NoResponse
    /\ cycle = <<>>

\* ------------------------------------------------------------ helpers
Remove(f, k) == [x \in (DOMAIN f) \ {k} |-> f[x]]

Put(f, k, v) == [x \in (DOMAIN f) \cup {k} |-> IF x = k THEN v ELSE f[x]]

\* Path.mkdir(parents=True, exist_ok=True)
Mkdir(d, b) == IF b \in DOMAIN d THEN d ELSE Put(d, b, {})

\* one entry of a request's record of driver calls
Call(fn, ok) == [fn |-> fn, ok |-> ok]

\* the run start, stop, start on one bot, each request of the owner let
\* through by the handler's checks and met by a cooperating daemon (coop):
\* phase 1 after a start, 2 after start then stop, 3 after start, stop,
\* start; h is the handle the first start worked on.  Any other answered
\* request of the owner ends the run.
CycleStep(c, op, coop, h) ==
    IF op = "start" /\ coop
    THEN IF c.phase = 2 THEN [c EXCEPT !.phase = 3] ELSE [phase |-> 1, h |-> h]
    ELSE IF op = "stop" /\ coop /\ c.phase \in {1, 3}
    THEN [c EXCEPT !.phase = 2]
    ELSE NoCycle

Track(b, op, coop, h) ==
    cycle' = Put(cycle, b,
                 CycleStep(IF b \in DOMAIN cycle THEN cycle[b] ELSE NoCycle,
                           op, coop, h))

\* the handler of worker w returns, or raises, with an HTTP status code
\* create_audit_log: the row added to audit_logs
create_audit_log(user_id, action, target_id) ==
    [user_id |-> user_id, action |-> action, target_id |-> target_id]

\* the response of a handler that wrote the audit rows entries
RespondAudited(w, code, fault, calls, entries) ==
    /\ last' = [op |-> req[w].op, user |-> req[w].user, bot |-> req[w].bot,
                code |-> code, was |-> req[w].was,
                fault |-> req[w].fault \/ fault,
                calls |-> req[w].calls \o calls,
                listing |-> <<>>, audit |-> entries]
    /\ req' = [req EXCEPT ![w] = Idle]

\* variant of Respond that writes an audit row whatever the outcome
Respond_AlwaysAudited(w, code, fault, calls) ==
    RespondAudited(w, code, fault, calls,
                   <<create_audit_log(req[w].user, req[w].op, req[w].bot)>>)

\* the response of a handler that raised before its create_audit_log
Respond(w, code, fault, calls) ==
    RespondAudited(w, code, fault, calls, <<>>)

\* a request turned down by the handler's first step
Reject(op, u, b, code) ==
    /\ last' = [NoResponse EXCEPT !.op = op, !.user = u, !.bot = b, !.code = code,
                                  !.was = IF b \in DOMAIN bots
                                          THEN bots[b].status ELSE "none"]
    /\ UNCHANGED req

\* the handler's first step lets the request through
Accept(w, r) ==
    /\ req' = [req EXCEPT ![w] = r]
    /\ last' = NoResponse

\* what start_bot holds of the bot and its plan once it has read them
StartArgs(b) ==
    [runtime |-> bots[b].runtime,
     ram_limit |-> Plans[bots[b].plan_id].ram_limit]

Request(op, u, b, pc) ==
    [Idle EXCEPT !.op = op, !.user = u, !.bot = b, !.pc = pc,
                 !.was = IF b \in DOMAIN bots THEN bots[b].status ELSE "none"]

\* ------------------------------------------------------------ app/utils.py
Chars(s) == {s[i] : i \in 1..Len(s)}

UpperCase == <<"A","B","C","D","E","F","G","H","I","J","K","L","M",
               "N","O","P","Q","R","S","T","U","V","W","X","Y","Z">>
LowerCase == <<"a","b","c","d","e","f","g","h","i","j","k","l","m",
               "n","o","p","q","r","s","t","u","v","w","x","y","z">>
Digits == {"0","1","2","3","4","5","6","7","8","9"}

\* re.IGNORECASE: compare letters by their lower-case form
Lower(c) ==
    IF \E i \in 1..Len(UpperCase) : UpperCase[i] = c
    THEN LowerCase[CHOOSE i \in 1..Len(UpperCase) : UpperCase[i] = c]
    ELSE c

\* re.search of a literal pattern, ignoring case
Search(pat, s) ==
    \E i \in 1..(Len(s) - Len(pat) + 1) :
        \A j \in 1..Len(pat) : Lower(s[i + j - 1]) = Lower(pat[j])

MaxStartCmdLen == 500
MinBotNameLen == 3
MaxBotNameLen == 50

\* the grave accent, written out because the lexer of TLA+ strings rejects it
Backtick == "GRAVE"

\* re.search of the pattern <head>.*<tail>, ignoring case: head, then any
\* characters but a line feed, then tail
SearchThen(head, tail, s) ==
    \E i \in 1..(Len(s) - Len(head) + 1) :
        /\ \A j \in 1..Len(head) : Lower(s[i + j - 1]) = Lower(head[j])
        /\ \E k \in (i + Len(head))..(Len(s) - Len(tail) + 1) :
              /\ \A j \in 1..Len(tail) : Lower(s[k + j - 1]) = Lower(tail[j])
              /\ \A m \in (i + Len(head))..(k - 1) : s[m] # "\n"

\* the literal patterns of dangerous_patterns, in the order of the list
dangerous_patterns ==
    << <<"&","&">>, <<"|","|">>, <<";">>, <<"|">>, <<">">>, <<"<">>, <<Backtick>>,
       <<"$","(">>, <<"b","a","s","h">>, <<"s","h"," ">>, <<"/","b","i","n","/">>,
       <<"r","m"," ">>, <<"d","d"," ">>, <<"m","k","f","s">> >>

\* the last two patterns of the list, curl.*\| and wget.*\|
piped_downloads == << <<"c","u","r","l">>, <<"w","g","e","t">> >>

\* variant of validate_start_command that turns down a command of 500
\* characters
validate_start_command_Below500(command) ==
    /\ ~(Len(command) = 0 \/ Len(command) >= MaxStartCmdLen)
    /\ \A k \in 1..Len(dangerous_patterns) : ~Search(dangerous_patterns[k], command)
    /\ \A k \in 1..Len(piped_downloads) :
          ~SearchThen(piped_downloads[k], <<"|">>, command)

validate_start_command(command) ==
    /\ ~(Len(command) = 0 \/ Len(command) > MaxStartCmdLen)
    /\ \A k \in 1..Len(dangerous_patterns) : ~Search(dangerous_patterns[k], command)
    /\ \A k \in 1..Len(piped_downloads) :
          ~SearchThen(piped_downloads[k], <<"|">>, command)

\* ^[a-zA-Z0-9_-]{3,50}$
BotNameChars == Chars(UpperCase) \cup Chars(LowerCase) \cup Digits \cup {"_", "-"}

validate_bot_name(name) ==
    /\ Len(name) >= MinBotNameLen
    /\ Len(name) <= MaxBotNameLen
    /\ Chars(name) \subseteq BotNameChars

\* the run of equal characters that position i of s lies in
RunStart(s, i) ==
    CHOOSE j \in 1..i : /\ \A k \in j..i : s[k] = s[i]
                        /\ j = 1 \/ s[j - 1] # s[i]

RunEnd(s, i) ==
    CHOOSE j \in i..Len(s) : /\ \A k \in i..j : s[k] = s[i]
                             /\ j = Len(s) \/ s[j + 1] # s[i]

\* str.replace(pat, "") for a pattern that repeats one character, as "..",
\* "/" and "\\" do: occurrences are removed left to right, once, so a run of
\* n such characters keeps its last n mod Len(pat)
RemoveAll(s, pat) ==
    LET Kept(i) ==
            \/ s[i] # pat[1]
            \/ i > RunEnd(s, i)
                     - ((RunEnd(s, i) - RunStart(s, i) + 1) % Len(pat))
        kept == SelectSeq([i \in 1..Len(s) |-> i], Kept)
    IN  [k \in 1..Len(kept) |-> s[kept[k]]]

\* str.rfind of one character; 0 when it does not occur
LastIndexOf(s, c) ==
    IF \E i \in 1..Len(s) : s[i] = c
    THEN CHOOSE i \in 1..Len(s) : s[i] = c /\ \A j \in (i + 1)..Len(s) : s[j] # c
    ELSE 0

\* os.path.basename (posixpath): what follows the last "/"
basename(s) == SubSeq(s, LastIndexOf(s, "/") + 1, Len(s))

\* os.path.splitext (posixpath): the extension starts at the last dot of the
\* name unless only dots precede it
splitext(s) ==
    LET i == LastIndexOf(s, ".")
    IN  IF i > 0 /\ \E j \in 1..(i - 1) : s[j] # "."
        THEN <<SubSeq(s, 1, i - 1), SubSeq(s, i, Len(s))>>
        ELSE <<s, <<>>>>

SafeFilenameChars ==
    Chars(UpperCase) \cup Chars(LowerCase) \cup Digits \cup {".", "_", "-"}

MaxFilenameLen == 255
FilenameStemLen == 250

\* variant of sanitize_filename that returns the client's name as it came
sanitize_filename_AsGiven(filename) == filename

sanitize_filename(filename) ==
    LET f1 == basename(filename)
        f2 == RemoveAll(RemoveAll(RemoveAll(f1, <<".", ".">>), <<"/">>), <<"\\">>)
        f3 == [i \in 1..Len(f2) |-> IF f2[i] \in SafeFilenameChars THEN f2[i] ELSE "_"]
    IN  IF Len(f3) > MaxFilenameLen
        THEN SubSeq(splitext(f3)[1], 1, FilenameStemLen) \o splitext(f3)[2]
        ELSE f3

EndsWith(s, suf) ==
    Len(s) >= Len(suf) /\ SubSeq(s, Len(s) - Len(suf) + 1, Len(s)) = suf

\* str.split("/") of a zip member name, without the empty parts
RECURSIVE PathParts(_)
PathParts(s) ==
    IF s = <<>> THEN <<>>
    ELSE IF \E i \in 1..Len(s) : s[i] = "/"
    THEN LET i == CHOOSE k \in 1..Len(s) : s[k] = "/" /\ \A j \in 1..(k - 1) : s[j] # "/"
         IN  (IF i = 1 THEN <<>> ELSE <<SubSeq(s, 1, i - 1)>>)
                 \o PathParts(SubSeq(s, i + 1, Len(s)))
    ELSE <<s>>

\* pathlib: Path(s).is_absolute()
IsAbsolute(s) == Len(s) > 0 /\ s[1] = "/"

\* pathlib: Path(s).suffix, "" unless a dot stands inside the last component
Suffix(s) ==
    LET parts == PathParts(s)
        name == IF parts = <<>> THEN <<>> ELSE parts[Len(parts)]
        i == LastIndexOf(name, ".")
    IN  IF 1 < i /\ i < Len(name) THEN SubSeq(name, i, Len(name)) ELSE <<>>

\* ------------------------------------------------------------ app/docker.py
\* RUNTIME_REGISTRY[runtime]["allowed_extensions"]
allowed_extensions(runtime) ==
    IF runtime = "python"
    THEN { <<".","p","y">>, <<".","t","x","t">>, <<".","j","s","o","n">>,
           <<".","y","a","m","l">>, <<".","y","m","l">> }
    ELSE { <<".","j","s">>, <<".","j","s","o","n">>, <<".","t","s">> }

\* The daemon refuses a second container of the same name (409, an APIError).
NameInUse(b) == \E c \in DOMAIN containers : containers[c].name = b

\* RUNTIME_REGISTRY: the image and the working directory of each runtime
RUNTIME_REGISTRY ==
    [python |-> [image |-> "python:3.11-slim", working_dir |-> "/app"],
     node |-> [image |-> "node:20-alpine", working_dir |-> "/app"]]

\* The arguments of containers.create: the bot's directory is the one volume,
\* bound at the working directory of the runtime.
HostConfig(b, runtime, ram_limit, mode) ==
    [image |-> RUNTIME_REGISTRY[runtime].image,
     working_dir |-> RUNTIME_REGISTRY[runtime].working_dir,
     mem_limit |-> ram_limit,
     cap_drop |-> {"ALL"},
     privileged |-> FALSE,
     security_opt |-> {"no-new-privileges"},
     network_mode |-> "bridge",
     volumes |-> { [source |-> b,
                    bind |-> RUNTIME_REGISTRY[runtime].working_dir,
                    mode |-> mode] }]

\* variant of create_container that mounts the bot's directory writable
create_container_WritableMount(b, runtime, ram_limit, fault) ==
    IF fault \/ NameInUse(b)
    THEN [id |-> None, containers |-> containers]
    ELSE [id |-> nextCid,
          containers |-> Put(containers, nextCid,
                            [name |-> b, state |-> "created", exit_code |-> 0,
                             log |-> 0,
                             config |-> HostConfig(b, runtime, ram_limit, "rw")])]

\* create_container: fault is an APIError raised by the daemon (image pull,
\* create); the result is the new id, or None for BadRequestException
create_container(b, runtime, ram_limit, fault) ==
    IF fault \/ NameInUse(b)
    THEN [id |-> None, containers |-> containers]
    ELSE [id |-> nextCid,
          containers |-> Put(containers, nextCid,
                            [name |-> b, state |-> "created", exit_code |-> 0,
                             log |-> 0,
                             config |-> HostConfig(b, runtime, ram_limit, "ro")])]

\* start_container: False on NotFound or APIError; starting a running
\* container is a no-op for the daemon
start_container(h, fault) ==
    IF h \notin DOMAIN containers \/ fault
    THEN [ok |-> FALSE, containers |-> containers]
    ELSE [ok |-> TRUE,
          containers |-> [containers EXCEPT ![h].state = "running",
                                            ![h].exit_code = 0]]

\* stop_container: False on NotFound or APIError; stopping a container that
\* is not running is a no-op for the daemon
stop_container(h, fault) ==
    IF h \notin DOMAIN containers \/ fault
    THEN [ok |-> FALSE, containers |-> containers]
    ELSE [ok |-> TRUE,
          containers |-> [containers EXCEPT
              ![h].state = IF @ = "running" THEN "exited" ELSE @]]

\* restart_container: False on NotFound or APIError
restart_container(h, fault) ==
    IF h \notin DOMAIN containers \/ fault
    THEN [ok |-> FALSE, containers |-> containers]
    ELSE [ok |-> TRUE,
          containers |-> [containers EXCEPT ![h].state = "running",
                                            ![h].exit_code = 0]]

\* variant of remove_container that reports a container that is gone as a
\* failure, as the other calls do
remove_container_MissingFails(h, fault) ==
    IF h \notin DOMAIN containers \/ fault
    THEN [ok |-> FALSE, containers |-> containers]
    ELSE [ok |-> TRUE, containers |-> Remove(containers, h)]

\* remove_container(force=True): True when the container is already gone
remove_container(h, fault) ==
    IF h \notin DOMAIN containers THEN [ok |-> TRUE, containers |-> containers]
    ELSE IF fault THEN [ok |-> FALSE, containers |-> containers]
    ELSE [ok |-> TRUE, containers |-> Remove(containers, h)]

\* variant of get_container_status that looks at the exit code of an exited
\* container only
get_container_status_ExitedOnly(h) ==
    IF h \notin DOMAIN containers THEN "STOPPED"
    ELSE IF containers[h].state = "running" THEN "RUNNING"
    ELSE IF containers[h].state = "exited"
    THEN IF containers[h].exit_code # 0 THEN "CRASHED" ELSE "STOPPED"
    ELSE IF containers[h].state = "created" THEN "CREATED"
    ELSE "STOPPED"

\* get_container_status: the status the daemon's view of the container maps
\* to; a container that is gone reads as STOPPED
get_container_status(h) ==
    IF h \notin DOMAIN containers THEN "STOPPED"
    ELSE IF containers[h].state = "running" THEN "RUNNING"
    ELSE IF containers[h].state \in {"exited", "dead"}
    THEN IF containers[h].exit_code # 0 THEN "CRASHED" ELSE "STOPPED"
    ELSE IF containers[h].state = "created" THEN "CREATED"
    ELSE "STOPPED"

\* exit codes of a bot's process: 0, or 1 for any code that is not 0
ExitCodes == {0, 1}

\* the bot's process ends by itself: the container is created without a
\* restart policy and with auto_remove=False, so it stays exited with the
\* exit code of the process
sandbox_exit ==
    /\ \E h \in DOMAIN containers, code \in ExitCodes :
          /\ containers[h].state = "running"
          /\ containers' = [containers EXCEPT ![h].state = "exited",
                                              ![h].exit_code = code]
    /\ \A w \in Workers : req[w].pc = "idle"
    /\ last' = NoResponse
    /\ UNCHANGED <<bots, nextBotId, nextCid, dirs, req, cycle>>

\* the bot's process writes a line to stdout or stderr; log is the number
\* of lines the daemon holds for the container, line n being the n-th written
sandbox_print ==
    /\ \E h \in DOMAIN containers :
          /\ containers[h].state = "running"
          /\ containers[h].log < MaxLogLines
          /\ containers' = [containers EXCEPT ![h].log = @ + 1]
    /\ \A w \in Workers : req[w].pc \in {"idle", "logs_stream", "logs_read"}
    /\ last' = NoResponse
    /\ UNCHANGED <<bots, nextBotId, nextCid, dirs, req, cycle>>

\* the container is removed behind the API's back (docker rm, a prune, a
\* host that was rebuilt): the case remove_container's NotFound branch and
\* get_container_status's NotFound branch are written for
sandbox_vanish ==
    /\ \E h \in DOMAIN containers : containers' = Remove(containers, h)
    /\ \A w \in Workers : req[w].pc = "idle"
    /\ last' = NoResponse
    /\ UNCHANGED <<bots, nextBotId, nextCid, dirs, req, cycle>>

\* the storage directory of a bot is removed behind the API's back: the
\* case the bot_path.exists() test of delete_bot is written for
\* the sentinel file of a storage directory
GitKeep == <<".","g","i","t","k","e","e","p">>

\* The sentinel file .gitkeep, which upload_bot_files spares (line 233), is
\* put into a bot's directory from outside the handlers.
sentinel_placed ==
    /\ \E b \in DOMAIN dirs :
         /\ GitKeep \notin dirs[b]
         /\ dirs' = [dirs EXCEPT ![b] = @ \cup {GitKeep}]
    /\ \A w \in Workers : req[w].pc = "idle"
    /\ last' = NoResponse
    /\ UNCHANGED <<bots, nextBotId, containers, nextCid, req, cycle>>

storage_vanish ==
    /\ \E b \in DOMAIN dirs : dirs' = Remove(dirs, b)
    /\ \A w \in Workers : req[w].pc = "idle"
    /\ last' = NoResponse
    /\ UNCHANGED <<bots, nextBotId, containers, nextCid, req, cycle>>

\* ------------------------------------------------------------ app/bots.py
\* variant of verify_bot_ownership that forgets to compare the owner
verify_bot_ownership_NoOwnerCheck(table, b, u) ==
    IF b \notin DOMAIN table THEN 404 ELSE None

\* verify_bot_ownership: 404 when the row is missing, 403 when it is someone
\* else's, None when the caller owns it and the handler goes on
verify_bot_ownership(table, b, u) ==
    IF b \notin DOMAIN table THEN 404
    ELSE IF table[b].user_id # u THEN 403
    ELSE None

\* db.commit() of a changed column of the row the session holds: the UPDATE
\* of a row that is gone matches nothing and raises (StaleDataError)
RowPresent(b) == b \in DOMAIN bots

\* request bodies of POST /bots (BotCreate); has_start_cmd tells a start_cmd
\* that is a string, be it the empty one, from one that is null or left out
CreateBodies ==
    { [name |-> <<"b","o","t">>, runtime |-> "python", has_start_cmd |-> FALSE,
       start_cmd |-> <<>>, plan_id |-> 1],
      [name |-> <<"b","-","2">>, runtime |-> "node", has_start_cmd |-> TRUE,
       start_cmd |-> <<"n","o","d","e"," ","a",".","j","s">>, plan_id |-> 2],
      [name |-> <<"a","b">>, runtime |-> "python", has_start_cmd |-> FALSE,
       start_cmd |-> <<>>, plan_id |-> 1],
      [name |-> <<"b","_","3">>, runtime |-> "python", has_start_cmd |-> TRUE,
       start_cmd |-> <<"a",";","r","m"," ","x">>, plan_id |-> 1],
      [name |-> <<"b","_","3">>, runtime |-> "python", has_start_cmd |-> FALSE,
       start_cmd |-> <<>>, plan_id |-> 4] }

\* a string of n letters
Pad(n) == [i \in 1..n |-> "a"]

\* bodies that differ in their start_cmd: the empty string, 500 and 501
\* characters, and "python main.py; rm -rf /"
CommandBodies ==
    { [name |-> <<"c","m","d">>, runtime |-> "python", has_start_cmd |-> TRUE,
       start_cmd |-> cmd, plan_id |-> 2] :
         cmd \in { <<>>, Pad(MaxStartCmdLen), Pad(MaxStartCmdLen + 1),
                   <<"p","y","t","h","o","n"," ","m","a","i","n",".","p","y",
                     ";"," ","r","m"," ","-","r","f"," ","/">> } }

\* creates that have passed their checks and not yet inserted their row
PendingCreates == Cardinality({w \in Workers : req[w].pc = "create_insert"})

\* create_bot, lines 115-145: validation and the three queries
create_bot_check(w, cap, u, body) ==
    /\ req[w].pc = "idle"
    /\ nextBotId + PendingCreates <= cap
    /\ LET user_bot_count == Cardinality({b \in DOMAIN bots : bots[b].user_id = u})
           existing == \E b \in DOMAIN bots :
                           bots[b].user_id = u /\ bots[b].name = body.name
           code == IF ~validate_bot_name(body.name) THEN 400
                   ELSE IF body.has_start_cmd /\ body.start_cmd # <<>>
                           /\ ~validate_start_command(body.start_cmd) THEN 400
                   ELSE IF body.plan_id \notin DOMAIN Plans THEN 404
                   ELSE IF user_bot_count >= Plans[body.plan_id].max_bots THEN 409
                   ELSE IF existing THEN 409
                   ELSE None
       IN  IF code # None
           THEN Reject("create", u, None, code)
           ELSE Accept(w, [Request("create", u, None, "create_insert")
                               EXCEPT !.body = body])
    /\ UNCHANGED <<bots, nextBotId, containers, nextCid, dirs, cycle>>

\* create_bot, lines 147-179: insert, commit, storage directory, 201
create_bot_insert(w) ==
    /\ req[w].pc = "create_insert"
    /\ LET body == req[w].body
           id == nextBotId
       IN  /\ bots' = Put(bots, id,
                  [user_id |-> req[w].user, plan_id |-> body.plan_id,
                   runtime |-> body.runtime, name |-> body.name,
                   has_start_cmd |-> body.has_start_cmd,
                   start_cmd |-> body.start_cmd, container_id |-> None,
                   status |-> "CREATED", source_type |-> "none"])
           /\ nextBotId' = id + 1
           /\ dirs' = Mkdir(dirs, id)
           /\ cycle' = Put(cycle, id, NoCycle)
           /\ last' = [NoResponse EXCEPT !.op = "create", !.user = req[w].user,
                                         !.bot = id, !.code = 201,
                                         !.audit = <<create_audit_log(
                                             req[w].user, "bot_create", id)>>]
           /\ req' = [req EXCEPT ![w] = Idle]
    /\ UNCHANGED <<containers, nextCid>>

create_bot(w, cap, creators, bodies) ==
    \/ \E u \in creators, body \in bodies : create_bot_check(w, cap, u, body)
    \/ create_bot_insert(w)

\* list_bots: the rows of the caller, each shown with the status column
list_bots(w) ==
    /\ req[w].pc = "idle"
    /\ \E u \in UserIds :
          last' = [NoResponse EXCEPT
                      !.op = "list", !.user = u, !.code = 200,
                      !.listing = [b \in {x \in DOMAIN bots : bots[x].user_id = u}
                                      |-> bots[b].status]]
    /\ UNCHANGED <<bots, nextBotId, containers, nextCid, dirs, req, cycle>>

\* uploads a client may send: the multipart filename and, for an archive,
\* whether the bytes are a zip file and the names of its members
DefaultUploadName == <<"u","p","l","o","a","d">>
MainPy == <<"m",".","p","y">>
ArchiveZip == <<"a",".","z","i","p">>

Uploads ==
    { [filename |-> MainPy, is_zip |-> FALSE, members |-> {}],
      [filename |-> <<"x",".","s","h">>, is_zip |-> FALSE, members |-> {}],
      [filename |-> ArchiveZip, is_zip |-> TRUE, members |-> {MainPy}],
      [filename |-> ArchiveZip, is_zip |-> TRUE,
       members |-> {MainPy, <<".",".","/","e",".","p","y">>}],
      [filename |-> ArchiveZip, is_zip |-> FALSE, members |-> {}] }

\* uploads written to get around the checks: a client filename with a path
\* in front, an archive with an absolute member, one with a shell script,
\* one with a directory and a file in it
EvilPy == <<".",".","/","e",".","p","y">>

HostileUploads ==
    { [filename |-> EvilPy, is_zip |-> FALSE, members |-> {}],
      [filename |-> ArchiveZip, is_zip |-> TRUE,
       members |-> {MainPy, <<"/","e",".","p","y">>}],
      [filename |-> ArchiveZip, is_zip |-> TRUE,
       members |-> {MainPy, <<"x",".","s","h">>}],
      [filename |-> ArchiveZip, is_zip |-> TRUE,
       members |-> {<<"d","/">>, <<"d","/","m",".","p","y">>}] }

\* the checks of lines 253-267 on one member of the archive
MemberRejected(member, runtime) ==
    \/ IsAbsolute(member)
    \/ \E i \in 1..Len(PathParts(member)) : PathParts(member)[i] = <<".", ".">>
    \/ /\ ~EndsWith(member, <<"/">>)
       /\ Suffix(member) # <<>>
       /\ Suffix(member) \notin allowed_extensions(runtime)

\* upload_bot_files, lines 227-228
upload_bot_files_verify(w, u, b, payload) ==
    /\ req[w].pc = "idle"
    /\ IF verify_bot_ownership(bots, b, u) # None
       THEN Reject("upload", u, b, verify_bot_ownership(bots, b, u))
       ELSE Accept(w, [Request("upload", u, b, "upload_store") EXCEPT
                          !.body = [payload |-> payload,
                                    runtime |-> bots[b].runtime]])
    /\ UNCHANGED <<bots, nextBotId, containers, nextCid, dirs, cycle>>

\* upload_bot_files, lines 229-304: the directory is cleared, then the upload
\* is checked and stored; a rejected archive stays in the directory
upload_bot_files_store(w) ==
    /\ req[w].pc = "upload_store"
    /\ LET b == req[w].bot
           payload == req[w].body.payload
           runtime == req[w].body.runtime
           kept == Mkdir(dirs, b)[b] \cap {GitKeep}
           filename == sanitize_filename(IF payload.filename = <<>>
                                         THEN DefaultUploadName
                                         ELSE payload.filename)
           is_archive == EndsWith(filename, <<".","z","i","p">>)
           rejected ==
               IF is_archive
               THEN \/ ~payload.is_zip
                    \/ \E m \in payload.members : MemberRejected(m, runtime)
               ELSE Suffix(filename) \notin allowed_extensions(runtime)
           stored ==
               IF is_archive
               THEN IF rejected THEN kept \cup {filename}
                    ELSE (kept \cup payload.members) \ {filename}
               ELSE IF rejected THEN kept ELSE kept \cup {filename}
           code == IF rejected THEN 400 ELSE IF RowPresent(b) THEN 200 ELSE 500
       IN  /\ dirs' = Put(dirs, b, stored)
           /\ bots' = IF code = 200
                      THEN [bots EXCEPT ![b].source_type =
                                IF is_archive THEN "zip" ELSE "file"]
                      ELSE bots
           /\ IF code = 200
              THEN RespondAudited(w, code, FALSE, <<>>,
                       <<create_audit_log(req[w].user, "bot_upload", b)>>)
              ELSE Respond(w, code, FALSE, <<>>)
           /\ Track(b, "upload", FALSE, None)
    /\ UNCHANGED <<nextBotId, containers, nextCid>>

upload_bot_files(w, cap, payloads) ==
    \/ \E u \in UserIds, b \in 1..cap, payload \in payloads :
           upload_bot_files_verify(w, u, b, payload)
    \/ upload_bot_files_store(w)

\* delete_bot, line 474
delete_bot_verify(w, u, b) ==
    /\ req[w].pc = "idle"
    /\ IF verify_bot_ownership(bots, b, u) # None
       THEN Reject("delete", u, b, verify_bot_ownership(bots, b, u))
       ELSE Accept(w, [Request("delete", u, b, "delete_run") EXCEPT
                          !.h = bots[b].container_id])
    /\ UNCHANGED <<bots, nextBotId, containers, nextCid, dirs, cycle>>

\* variant of delete_bot_run that removes the directory tree without
\* get_bot_storage_path's mkdir and the exists() test: rmtree of a missing
\* directory raises before the row is deleted
delete_bot_run_Unguarded(w) ==
    /\ req[w].pc = "delete_run"
    /\ \E fault \in BOOLEAN :
         LET h == req[w].h
             b == req[w].bot
             r == remove_container(h, fault)
             failed == b \notin DOMAIN dirs
         IN  /\ fault => h \in DOMAIN containers
             /\ containers' = IF h # None THEN r.containers ELSE containers
             /\ Respond(w, IF failed THEN 500 ELSE 204, fault,
                        IF h # None THEN <<Call("remove", r.ok)>> ELSE <<>>)
             /\ dirs' = IF failed THEN dirs ELSE Remove(dirs, b)
             /\ bots' = IF failed THEN bots ELSE Remove(bots, b)
    /\ Track(req[w].bot, "delete", FALSE, None)
    /\ UNCHANGED <<nextBotId, nextCid>>

\* delete_bot, lines 476-495: the result of remove_container is not looked
\* at; a DELETE that matches no row is not an error
delete_bot_run(w) ==
    /\ req[w].pc = "delete_run"
    /\ \E fault \in BOOLEAN :
         LET h == req[w].h
             r == remove_container(h, fault)
         IN  /\ fault => h \in DOMAIN containers
             /\ containers' = IF h # None THEN r.containers ELSE containers
             /\ RespondAudited(w, 204, fault,
                    IF h # None THEN <<Call("remove", r.ok)>> ELSE <<>>,
                    <<create_audit_log(req[w].user, "bot_delete", req[w].bot)>>)
    /\ dirs' = Remove(dirs, req[w].bot)
    /\ bots' = Remove(bots, req[w].bot)
    /\ Track(req[w].bot, "delete", FALSE, None)
    /\ UNCHANGED <<nextBotId, nextCid>>

\* delete_bot, lines 476-483, as the two calls it is: the container and the
\* directory are removed first ...
delete_bot_remove(w) ==
    /\ req[w].pc = "delete_run"
    /\ \E fault \in BOOLEAN :
         LET h == req[w].h
             r == remove_container(h, fault)
         IN  /\ fault => h \in DOMAIN containers
             /\ containers' = IF h # None THEN r.containers ELSE containers
             /\ req' = [req EXCEPT
                    ![w].pc = "delete_row",
                    ![w].fault = fault,
                    ![w].calls = IF h # None THEN <<Call("remove", r.ok)>>
                                 ELSE <<>>]
    /\ dirs' = Remove(dirs, req[w].bot)
    /\ last' = NoResponse
    /\ UNCHANGED <<bots, nextBotId, nextCid, cycle>>

\* ... lines 485-495: and the row is deleted in a commit of its own
delete_bot_row(w) ==
    /\ req[w].pc = "delete_row"
    /\ bots' = Remove(bots, req[w].bot)
    /\ RespondAudited(w, 204, FALSE, <<>>,
           <<create_audit_log(req[w].user, "bot_delete", req[w].bot)>>)
    /\ Track(req[w].bot, "delete", FALSE, None)
    /\ UNCHANGED <<nextBotId, containers, nextCid, dirs>>

delete_bot(w, cap) ==
    \/ \E u \in UserIds, b \in 1..cap : delete_bot_verify(w, u, b)
    \/ delete_bot_run(w)

\* variant of start_bot_verify without the check of lines 329-331
start_bot_verify_NoFilesCheck(w, u, b) ==
    /\ req[w].pc = "idle"
    /\ IF verify_bot_ownership(bots, b, u) # None
       THEN /\ Reject("start", u, b, verify_bot_ownership(bots, b, u))
            /\ UNCHANGED dirs
       ELSE IF bots[b].plan_id \notin DOMAIN Plans
       THEN /\ Reject("start", u, b, 404)
            /\ UNCHANGED dirs
       ELSE /\ dirs' = Mkdir(dirs, b)
            /\ Accept(w, [Request("start", u, b,
                              IF bots[b].container_id = None
                              THEN "start_create" ELSE "start_run")
                          EXCEPT !.h = bots[b].container_id,
                                 !.body = StartArgs(b)])
    /\ UNCHANGED <<bots, nextBotId, containers, nextCid, cycle>>

\* variant of start_bot_verify that creates a container on every start,
\* whether or not the row holds a handle (line 335 dropped)
start_bot_verify_AlwaysCreate(w, u, b) ==
    /\ req[w].pc = "idle"
    /\ IF verify_bot_ownership(bots, b, u) # None
       THEN /\ Reject("start", u, b, verify_bot_ownership(bots, b, u))
            /\ UNCHANGED <<dirs, cycle>>
       ELSE IF bots[b].plan_id \notin DOMAIN Plans
       THEN /\ Reject("start", u, b, 404)
            /\ UNCHANGED dirs
            /\ Track(b, "start", FALSE, None)
       ELSE /\ dirs' = Mkdir(dirs, b)
            /\ IF Mkdir(dirs, b)[b] = {}
               THEN /\ Reject("start", u, b, 400)
                    /\ Track(b, "start", FALSE, None)
               ELSE /\ Accept(w, [Request("start", u, b, "start_create")
                                  EXCEPT !.h = bots[b].container_id,
                                         !.body = StartArgs(b)])
                    /\ UNCHANGED cycle
    /\ UNCHANGED <<bots, nextBotId, containers, nextCid>>

\* start_bot, lines 321-331: ownership, plan, storage directory not empty
start_bot_verify(w, u, b) ==
    /\ req[w].pc = "idle"
    /\ IF verify_bot_ownership(bots, b, u) # None
       THEN /\ Reject("start", u, b, verify_bot_ownership(bots, b, u))
            /\ UNCHANGED <<dirs, cycle>>
       ELSE IF bots[b].plan_id \notin DOMAIN Plans
       THEN /\ Reject("start", u, b, 404)
            /\ UNCHANGED dirs
            /\ Track(b, "start", FALSE, None)
       ELSE /\ dirs' = Mkdir(dirs, b)
            /\ IF Mkdir(dirs, b)[b] = {}
               THEN /\ Reject("start", u, b, 400)
                    /\ Track(b, "start", FALSE, None)
               ELSE /\ Accept(w, [Request("start", u, b,
                                      IF bots[b].container_id = None
                                      THEN "start_create" ELSE "start_run")
                                  EXCEPT !.h = bots[b].container_id,
                                         !.body = StartArgs(b)])
                    /\ UNCHANGED cycle
    /\ UNCHANGED <<bots, nextBotId, containers, nextCid>>

\* start_bot, lines 335-344 and, when create_container raises, 363-366
start_bot_create(w) ==
    /\ req[w].pc = "start_create"
    /\ \E fault \in BOOLEAN :
         LET b == req[w].bot
             r == create_container(b, req[w].body.runtime,
                                   req[w].body.ram_limit, fault)
         IN  /\ fault => ~NameInUse(b)
             /\ dirs' = Mkdir(dirs, b)
             /\ containers' = r.containers
             /\ nextCid' = IF r.id # None THEN nextCid + 1 ELSE nextCid
             /\ IF r.id # None /\ RowPresent(b)
                THEN /\ bots' = [bots EXCEPT ![b].container_id = r.id]
                     /\ req' = [req EXCEPT ![w].pc = "start_run", ![w].h = r.id,
                                           ![w].reload = TRUE,
                                           ![w].calls = <<Call("create", TRUE)>>]
                     /\ last' = NoResponse
                     /\ UNCHANGED cycle
                ELSE IF r.id # None
                THEN \* the row is gone: the commit and the handler's own
                     \* commit of CRASHED both raise
                     /\ Respond(w, 500, FALSE, <<Call("create", TRUE)>>)
                     /\ UNCHANGED <<bots, cycle>>
                ELSE IF RowPresent(b)
                THEN /\ bots' = [bots EXCEPT ![b].status = "CRASHED"]
                     /\ Respond(w, 400, fault, <<Call("create", FALSE)>>)
                     /\ Track(b, "start", ~fault, None)
                ELSE /\ Respond(w, 500, fault, <<Call("create", FALSE)>>)
                     /\ UNCHANGED <<bots, cycle>>
    /\ UNCHANGED nextBotId

\* variant of start_bot_run whose failure path re-raises without the commit
\* of CRASHED (lines 364-365 dropped)
start_bot_run_NoCrashedCommit(w) ==
    /\ req[w].pc = "start_run"
    /\ \E fault \in BOOLEAN :
         LET b == req[w].bot
             h == req[w].h
             r == start_container(h, fault)
         IN  /\ fault => h \in DOMAIN containers
             /\ IF req[w].reload /\ ~RowPresent(b)
                THEN /\ ~fault
                     /\ Respond(w, 500, FALSE, <<>>)
                     /\ UNCHANGED <<bots, containers, cycle>>
                ELSE /\ containers' = r.containers
                     /\ IF ~RowPresent(b)
                        THEN /\ Respond(w, 500, fault, <<Call("start", r.ok)>>)
                             /\ UNCHANGED <<bots, cycle>>
                        ELSE IF r.ok
                        THEN /\ bots' = [bots EXCEPT ![b].status = "RUNNING"]
                             /\ Respond(w, 200, fault, <<Call("start", TRUE)>>)
                             /\ Track(b, "start", TRUE, h)
                        ELSE /\ UNCHANGED bots
                             /\ Respond(w, 400, fault, <<Call("start", FALSE)>>)
                             /\ Track(b, "start", ~fault, h)
    /\ UNCHANGED <<nextBotId, nextCid, dirs>>

\* start_bot, lines 347-376 and 363-366.  After the commit of line 344 the
\* row is read again for bot.container_id, which raises when it is gone.
start_bot_run(w) ==
    /\ req[w].pc = "start_run"
    /\ \E fault \in BOOLEAN :
         LET b == req[w].bot
             h == req[w].h
             r == start_container(h, fault)
         IN  /\ fault => h \in DOMAIN containers
             /\ IF req[w].reload /\ ~RowPresent(b)
                THEN /\ ~fault
                     /\ Respond(w, 500, FALSE, <<>>)
                     /\ UNCHANGED <<bots, containers, cycle>>
                ELSE /\ containers' = r.containers
                     /\ IF ~RowPresent(b)
                        THEN /\ Respond(w, 500, fault, <<Call("start", r.ok)>>)
                             /\ UNCHANGED <<bots, cycle>>
                        ELSE IF r.ok
                        THEN /\ bots' = [bots EXCEPT ![b].status = "RUNNING"]
                             /\ RespondAudited(w, 200, fault,
                                    <<Call("start", TRUE)>>,
                                    <<create_audit_log(req[w].user, "bot_start", b)>>)
                             /\ Track(b, "start", TRUE, h)
                        ELSE /\ bots' = [bots EXCEPT ![b].status = "CRASHED"]
                             /\ Respond(w, 400, fault, <<Call("start", FALSE)>>)
                             /\ Track(b, "start", ~fault, h)
    /\ UNCHANGED <<nextBotId, nextCid, dirs>>

start_bot(w, cap) ==
    \/ \E u \in UserIds, b \in 1..cap : start_bot_verify(w, u, b)
    \/ start_bot_create(w)
    \/ start_bot_run(w)

\* variant of stop_bot_verify that looks at the handle before the owner
stop_bot_verify_HandleFirst(w, u, b) ==
    /\ req[w].pc = "idle"
    /\ IF b \notin DOMAIN bots
       THEN /\ Reject("stop", u, b, 404)
            /\ UNCHANGED cycle
       ELSE IF bots[b].container_id = None
       THEN /\ Reject("stop", u, b, 400)
            /\ UNCHANGED cycle
       ELSE IF bots[b].user_id # u
       THEN /\ Reject("stop", u, b, 403)
            /\ UNCHANGED cycle
       ELSE /\ Accept(w, [Request("stop", u, b, "stop_run") EXCEPT
                             !.h = bots[b].container_id])
            /\ UNCHANGED cycle
    /\ UNCHANGED <<bots, nextBotId, containers, nextCid, dirs>>

\* variant of stop_bot_verify that answers at once when the row already
\* says STOPPED, without a call to the driver
stop_bot_verify_SkipWhenStopped(w, u, b) ==
    /\ req[w].pc = "idle"
    /\ IF verify_bot_ownership(bots, b, u) # None
       THEN /\ Reject("stop", u, b, verify_bot_ownership(bots, b, u))
            /\ UNCHANGED cycle
       ELSE IF bots[b].container_id = None
       THEN /\ Reject("stop", u, b, 400)
            /\ Track(b, "stop", FALSE, None)
       ELSE IF bots[b].status = "STOPPED"
       THEN /\ Reject("stop", u, b, 200)
            /\ UNCHANGED cycle
       ELSE /\ Accept(w, [Request("stop", u, b, "stop_run") EXCEPT
                             !.h = bots[b].container_id])
            /\ UNCHANGED cycle
    /\ UNCHANGED <<bots, nextBotId, containers, nextCid, dirs>>

\* stop_bot, lines 390-393
stop_bot_verify(w, u, b) ==
    /\ req[w].pc = "idle"
    /\ IF verify_bot_ownership(bots, b, u) # None
       THEN /\ Reject("stop", u, b, verify_bot_ownership(bots, b, u))
            /\ UNCHANGED cycle
       ELSE IF bots[b].container_id = None
       THEN /\ Reject("stop", u, b, 400)
            /\ Track(b, "stop", FALSE, None)
       ELSE /\ Accept(w, [Request("stop", u, b, "stop_run") EXCEPT
                             !.h = bots[b].container_id])
            /\ UNCHANGED cycle
    /\ UNCHANGED <<bots, nextBotId, containers, nextCid, dirs>>

\* variant of stop_bot_run that commits STOPPED before it looks at the
\* driver's result
stop_bot_run_CommitBeforeCheck(w) ==
    /\ req[w].pc = "stop_run"
    /\ \E fault \in BOOLEAN :
         LET b == req[w].bot
             h == req[w].h
             r == stop_container(h, fault)
             code == IF ~RowPresent(b) THEN 500 ELSE IF r.ok THEN 200 ELSE 400
         IN  /\ fault => h \in DOMAIN containers
             /\ containers' = r.containers
             /\ bots' = IF RowPresent(b)
                        THEN [bots EXCEPT ![b].status = "STOPPED"] ELSE bots
             /\ Respond(w, code, fault, <<Call("stop", r.ok)>>)
             /\ IF RowPresent(b) THEN Track(b, "stop", ~fault, h)
                                 ELSE UNCHANGED cycle
    /\ UNCHANGED <<nextBotId, nextCid, dirs>>

\* stop_bot, lines 395-418
stop_bot_run(w) ==
    /\ req[w].pc = "stop_run"
    /\ \E fault \in BOOLEAN :
         LET b == req[w].bot
             h == req[w].h
             r == stop_container(h, fault)
             code == IF ~r.ok THEN 400 ELSE IF RowPresent(b) THEN 200 ELSE 500
         IN  /\ fault => h \in DOMAIN containers
             /\ containers' = r.containers
             /\ bots' = IF code = 200
                        THEN [bots EXCEPT ![b].status = "STOPPED"] ELSE bots
             /\ IF code = 200
                THEN RespondAudited(w, code, fault, <<Call("stop", r.ok)>>,
                         <<create_audit_log(req[w].user, "bot_stop", b)>>)
                ELSE Respond(w, code, fault, <<Call("stop", r.ok)>>)
             /\ IF RowPresent(b) THEN Track(b, "stop", ~fault, h)
                                 ELSE UNCHANGED cycle
    /\ UNCHANGED <<nextBotId, nextCid, dirs>>

stop_bot(w, cap) ==
    \/ \E u \in UserIds, b \in 1..cap : stop_bot_verify(w, u, b)
    \/ stop_bot_run(w)

\* restart_bot, lines 432-435
restart_bot_verify(w, u, b) ==
    /\ req[w].pc = "idle"
    /\ IF verify_bot_ownership(bots, b, u) # None
       THEN /\ Reject("restart", u, b, verify_bot_ownership(bots, b, u))
            /\ UNCHANGED cycle
       ELSE IF bots[b].container_id = None
       THEN /\ Reject("restart", u, b, 400)
            /\ Track(b, "restart", FALSE, None)
       ELSE /\ Accept(w, [Request("restart", u, b, "restart_run") EXCEPT
                             !.h = bots[b].container_id])
            /\ UNCHANGED cycle
    /\ UNCHANGED <<bots, nextBotId, containers, nextCid, dirs>>

\* variant of restart_bot_run that commits RUNNING before it looks at the
\* result of restart_container
restart_bot_run_CommitBeforeCheck(w) ==
    /\ req[w].pc = "restart_run"
    /\ \E fault \in BOOLEAN :
         LET b == req[w].bot
             h == req[w].h
             r == restart_container(h, fault)
             code == IF ~RowPresent(b) THEN 500 ELSE IF r.ok THEN 200 ELSE 400
         IN  /\ fault => h \in DOMAIN containers
             /\ containers' = r.containers
             /\ bots' = IF RowPresent(b)
                        THEN [bots EXCEPT ![b].status = "RUNNING"] ELSE bots
             /\ Respond(w, code, fault, <<Call("restart", r.ok)>>)
             /\ IF RowPresent(b) THEN Track(b, "restart", FALSE, h)
                                 ELSE UNCHANGED cycle
    /\ UNCHANGED <<nextBotId, nextCid, dirs>>

\* restart_bot, lines 437-460
restart_bot_run(w) ==
    /\ req[w].pc = "restart_run"
    /\ \E fault \in BOOLEAN :
         LET b == req[w].bot
             h == req[w].h
             r == restart_container(h, fault)
             code == IF ~r.ok THEN 400 ELSE IF RowPresent(b) THEN 200 ELSE 500
         IN  /\ fault => h \in DOMAIN containers
             /\ containers' = r.containers
             /\ bots' = IF code = 200
                        THEN [bots EXCEPT ![b].status = "RUNNING"] ELSE bots
             /\ IF code = 200
                THEN RespondAudited(w, code, fault, <<Call("restart", r.ok)>>,
                         <<create_audit_log(req[w].user, "bot_restart", b)>>)
                ELSE Respond(w, code, fault, <<Call("restart", r.ok)>>)
             /\ IF RowPresent(b) THEN Track(b, "restart", FALSE, h)
                                 ELSE UNCHANGED cycle
    /\ UNCHANGED <<nextBotId, nextCid, dirs>>

restart_bot(w, cap) ==
    \/ \E u \in UserIds, b \in 1..cap : restart_bot_verify(w, u, b)
    \/ restart_bot_run(w)

\* ------------------------------------------------------------ app/auth.py, app/sockets.py
\* tokens a subscriber may present: good is a token jwt.decode accepts
\* (well formed, signed with the key, not expired); sub is its subject claim
Tokens ==
    { [good |-> TRUE, has_sub |-> TRUE, sub |-> <<"1">>],
      [good |-> TRUE, has_sub |-> TRUE, sub |-> <<"2">>],
      [good |-> TRUE, has_sub |-> TRUE, sub |-> <<"9">>],
      [good |-> TRUE, has_sub |-> TRUE, sub |-> <<"x">>],
      [good |-> TRUE, has_sub |-> FALSE, sub |-> <<>>],
      [good |-> FALSE, has_sub |-> TRUE, sub |-> <<"1">>] }

\* decode_token: the payload, or HTTPException(401) in place of jose's
\* JWTError
decode_token(token) ==
    IF token.good THEN [raised |-> "none", payload |-> token]
    ELSE [raised |-> "HTTPException", payload |-> token]

DigitValue ==
    [c \in Digits |-> CHOOSE n \in 0..9 :
        <<"0","1","2","3","4","5","6","7","8","9">>[n + 1] = c]

\* int() of a string of decimal digits; -1 stands for ValueError
RECURSIVE ParseInt(_)
ParseInt(str) ==
    IF str = <<>> \/ ~(Chars(str) \subseteq Digits) THEN -1
    ELSE IF Len(str) = 1 THEN DigitValue[str[1]]
    ELSE 10 * ParseInt(SubSeq(str, 1, Len(str) - 1)) + DigitValue[str[Len(str)]]

\* get_current_user_ws: the user, None, or the exception that leaves it:
\* the except clause names JWTError, which decode_token never lets through
get_current_user_ws(token) ==
    LET d == decode_token(token)
    IN  IF d.raised = "JWTError" THEN [raised |-> "none", user |-> None]
        ELSE IF d.raised # "none" THEN [raised |-> d.raised, user |-> None]
        ELSE IF ~d.payload.has_sub THEN [raised |-> "none", user |-> None]
        ELSE IF ParseInt(d.payload.sub) = -1 THEN [raised |-> "none", user |-> None]
        ELSE IF ParseInt(d.payload.sub) \in UserIds
        THEN [raised |-> "none", user |-> ParseInt(d.payload.sub)]
        ELSE [raised |-> "none", user |-> None]

\* UserStatus: the status of the user's row as the session reads it (line
\* 39).  POST /admin/users/{id}/suspend and /activate (main.py) set it at any
\* time; the handlers of bots.py are reached by ACTIVE users only
\* (auth.py, get_current_user).
UserStatus == {"ACTIVE", "SUSPENDED"}

\* WebSocket close codes
NormalClosure == 1000
PolicyViolation == 1008
InternalError == 1011

\* tail=50 of the call get_recent_logs(bot.container_id, tail=50)
RecentTail == 50

\* the lines lo..hi of a container's log, each named by its number
LogLines(lo, hi) == [i \in 1..(hi - lo + 1) |-> lo + i - 1]

\* get_recent_logs: the last tail lines of the log; for a container that is
\* gone the text "Container not found" (notice) in place of any line
get_recent_logs(h, tail) ==
    IF h \notin DOMAIN containers THEN [notice |-> TRUE, lines |-> <<>>]
    ELSE LET n == containers[h].log
         IN  [notice |-> FALSE,
              lines |-> LogLines(IF n > tail THEN n - tail + 1 ELSE 1, n)]

\* stream_logs: what the generator does when asked for its next item after
\* it has yielded pos lines.  container.logs(stream=True, follow=True) is
\* given neither tail nor since, so the daemon sends the log from its first
\* line on and then follows it: while the container runs and has written
\* nothing more, the read of the next line does not return ("block").
stream_logs(h, pos) ==
    IF h \notin DOMAIN containers
    THEN IF pos = 0 THEN [kind |-> "not_found", n |-> 0]
         ELSE [kind |-> "end", n |-> 0]
    ELSE IF pos < containers[h].log THEN [kind |-> "line", n |-> pos + 1]
    ELSE IF containers[h].state = "running" THEN [kind |-> "block", n |-> 0]
    ELSE [kind |-> "end", n |-> 0]

\* one text frame sent to the subscriber; lines are the log lines it carries
Frame(kind, lines) == [fn |-> kind, ok |-> TRUE, lines |-> lines]

\* the session of a subscriber ends; code is the close code the handler
\* sent, None when it returned without closing
Hangup(w, u, b, code, fault, frames) ==
    /\ last' = [NoResponse EXCEPT !.op = "logs", !.user = u, !.bot = b,
                                  !.code = code, !.fault = fault,
                                  !.calls = frames]
    /\ req' = [req EXCEPT ![w] = Idle]

\* The server process runs one event loop.  A handler runs on it from one
\* await to the next: the handlers of bots.py run through, a log session
\* gives the loop up where it sends a frame or sleeps, and the loop is held
\* for as long as the session is inside next() of the synchronous generator
\* stream_logs.
LoopFree(w) == \A x \in Workers \ {w} : req[x].pc = "idle"

LoopBlocked == \E w \in Workers : req[w].pc = "logs_read"

\* bot_logs_websocket without the test of lines 82-85: a bot that has no
\* handle is taken to the driver like any other
bot_logs_websocket_open_NoHandleTest(w, token, b) ==
    /\ req[w].pc = "idle"
    /\ LoopFree(w)
    /\ \E fault \in BOOLEAN, status \in UserStatus :
         LET a == get_current_user_ws(token)
             u == a.user
             h == IF b \in DOMAIN bots THEN bots[b].container_id ELSE None
             recent_logs == get_recent_logs(h, RecentTail)
             preamble == IF recent_logs.notice \/ recent_logs.lines # <<>>
                         THEN <<Frame("recent", recent_logs.lines)>> ELSE <<>>
         IN  IF a.raised # "none"
             THEN ~fault
                  /\ Hangup(w, None, b, InternalError, FALSE,
                            <<Frame("error", <<>>)>>)
             ELSE IF u = None
             THEN ~fault
                  /\ Hangup(w, None, b, PolicyViolation, FALSE,
                            <<Frame("authentication_failed", <<>>)>>)
             ELSE IF verify_bot_ownership(bots, b, u) # None
             THEN ~fault
                  /\ Hangup(w, u, b, PolicyViolation, FALSE,
                            <<Frame("authorization_failed", <<>>)>>)
             ELSE IF fault
             THEN Hangup(w, u, b, InternalError, TRUE,
                         <<Call("get_recent_logs", FALSE),
                           Frame("error", <<>>)>>)
             ELSE Accept(w, [Request("logs", u, b, "logs_stream") EXCEPT
                                !.h = h,
                                !.body = [status |-> status],
                                !.calls = <<Call("get_recent_logs", TRUE)>>
                                          \o preamble])
    /\ UNCHANGED <<bots, nextBotId, containers, nextCid, dirs, cycle>>

\* bot_logs_websocket, lines 64-92: accept, authenticate, authorize, recent
\* logs.  fault is the daemon out of reach when the recent logs are asked for.
bot_logs_websocket_open(w, token, b) ==
    /\ req[w].pc = "idle"
    /\ LoopFree(w)
    /\ \E fault \in BOOLEAN, status \in UserStatus :
         LET a == get_current_user_ws(token)
             u == a.user
             h == IF b \in DOMAIN bots THEN bots[b].container_id ELSE None
             recent_logs == get_recent_logs(h, RecentTail)
             preamble == IF recent_logs.notice \/ recent_logs.lines # <<>>
                         THEN <<Frame("recent", recent_logs.lines)>> ELSE <<>>
         IN  IF a.raised # "none"
             THEN ~fault
                  /\ Hangup(w, None, b, InternalError, FALSE,
                            <<Frame("error", <<>>)>>)
             ELSE IF u = None
             THEN ~fault
                  /\ Hangup(w, None, b, PolicyViolation, FALSE,
                            <<Frame("authentication_failed", <<>>)>>)
             ELSE IF verify_bot_ownership(bots, b, u) # None
             THEN ~fault
                  /\ Hangup(w, u, b, PolicyViolation, FALSE,
                            <<Frame("authorization_failed", <<>>)>>)
             ELSE IF h = None
             THEN ~fault
                  /\ Hangup(w, u, b, NormalClosure, FALSE,
                            <<Frame("no_container", <<>>)>>)
             ELSE IF fault
             THEN Hangup(w, u, b, InternalError, TRUE,
                         <<Call("get_recent_logs", FALSE),
                           Frame("error", <<>>)>>)
             ELSE Accept(w, [Request("logs", u, b, "logs_stream") EXCEPT
                                !.h = h,
                                !.body = [status |-> status],
                                !.calls = <<Call("get_recent_logs", TRUE)>>
                                          \o preamble])
    /\ UNCHANGED <<bots, nextBotId, containers, nextCid, dirs, cycle>>

\* stream_to_websocket, line 97: the for statement asks the generator for
\* its next item; the first time, that starts stream_logs
bot_logs_websocket_next(w) ==
    /\ req[w].pc = "logs_stream"
    /\ LoopFree(w)
    /\ req' = [req EXCEPT ![w].pc = "logs_read",
                          ![w].calls =
                              IF \E i \in DOMAIN @ : @[i].fn = "stream_logs"
                              THEN @ ELSE @ \o <<Call("stream_logs", TRUE)>>]
    /\ last' = NoResponse
    /\ UNCHANGED <<bots, nextBotId, containers, nextCid, dirs, cycle>>

\* stream_to_websocket, lines 97-99: the generator yields a line and it is
\* sent.  To a subscriber who has hung up send_text raises, and so does the
\* send_text of lines 100-102 and the one of lines 109-115: the handler
\* returns and nothing was delivered.
bot_logs_websocket_line(w) ==
    /\ req[w].pc = "logs_read"
    /\ LET item == stream_logs(req[w].h, req[w].pos)
       IN  /\ item.kind = "line"
           /\ IF req[w].gone
              THEN Hangup(w, req[w].user, req[w].bot, None, FALSE, req[w].calls)
              ELSE /\ req' = [req EXCEPT
                                ![w].pc = "logs_stream",
                                ![w].pos = item.n,
                                ![w].calls = @ \o <<Frame("line", <<item.n>>)>>]
                   /\ last' = NoResponse
    /\ UNCHANGED <<bots, nextBotId, containers, nextCid, dirs, cycle>>

\* stream_to_websocket, lines 96-105: the generator is exhausted, after the
\* one item "Container not found" when the container was gone at its start;
\* the handler returns and has closed nothing
bot_logs_websocket_return(w) ==
    /\ req[w].pc = "logs_read"
    /\ LET item == stream_logs(req[w].h, req[w].pos)
       IN  /\ item.kind \in {"end", "not_found"}
           /\ Hangup(w, req[w].user, req[w].bot, None, FALSE,
                     req[w].calls \o
                       (IF item.kind = "not_found" /\ ~req[w].gone
                        THEN <<Frame("not_found", <<>>)>> ELSE <<>>))
    /\ UNCHANGED <<bots, nextBotId, containers, nextCid, dirs, cycle>>

\* stream_to_websocket, lines 100-102: the connection to the daemon breaks
\* while the log is read; the error is sent as a frame, the handler returns
\* and has closed nothing
bot_logs_websocket_error(w) ==
    /\ req[w].pc = "logs_read"
    /\ Hangup(w, req[w].user, req[w].bot, None, TRUE,
              req[w].calls \o
                (IF req[w].gone THEN <<>> ELSE <<Frame("error", <<>>)>>))
    /\ UNCHANGED <<bots, nextBotId, containers, nextCid, dirs, cycle>>

\* the subscriber closes the connection; the handler does not receive on the
\* socket, so it learns of this only from a send that fails
subscriber_disconnect(w) ==
    /\ req[w].pc \in {"logs_stream", "logs_read"}
    /\ ~req[w].gone
    /\ req' = [req EXCEPT ![w].gone = TRUE]
    /\ last' = NoResponse
    /\ UNCHANGED <<bots, nextBotId, containers, nextCid, dirs, cycle>>

bot_logs_websocket(w, cap) ==
    \/ \E token \in Tokens, b \in 1..cap : bot_logs_websocket_open(w, token, b)
    \/ bot_logs_websocket_next(w)
    \/ bot_logs_websocket_line(w)
    \/ bot_logs_websocket_return(w)
    \/ bot_logs_websocket_error(w)

\* ------------------------------------------------------------ functions applied to inputs
\* the upper-case form of a letter
Upper(c) ==
    IF \E i \in 1..Len(LowerCase) : LowerCase[i] = c
    THEN UpperCase[CHOOSE i \in 1..Len(LowerCase) : LowerCase[i] = c]
    ELSE c

UpperStr(s) == [i \in 1..Len(s) |-> Upper(s[i])]

\* commands that hold none of the patterns, some of them by one character
HarmlessCommands ==
    { <<"p","y","t","h","o","n"," ","m","a","i","n",".","p","y">>,
      <<"n","o","d","e"," ","a",".","j","s">>, <<"p","u","s","h">>,
      <<"r","m">>, <<"d","d">>, <<"s","h">>, <<"a">>, <<" ">>,
      <<"/","b","i","n">>, <<"&">>, <<"$">>, <<"m","k","f">>,
      <<"b","a","s"," ","h">>, <<"c","u","r","l"," ","x">>,
      <<"w","g","e","t"," ","x">>, <<"$"," ","(">>,
      <<"a"," ","&"," ","b">>, <<"a","\n","b">> }

\* start commands: the empty one, harmless ones, commands of 499, 500 and
\* 501 characters, each pattern of the list alone and inside a command, in
\* lower and in upper case, at the end of a command of 500 characters, and
\* a download piped into a command
Commands ==
    {<<>>} \cup HarmlessCommands
    \cup { Pad(n) : n \in {MaxStartCmdLen - 1, MaxStartCmdLen, MaxStartCmdLen + 1} }
    \cup { pre \o pat \o post :
             pre \in {<<>>, <<"x">>}, post \in {<<>>, <<"y">>},
             pat \in { dangerous_patterns[k] : k \in 1..Len(dangerous_patterns) }
                     \cup { UpperStr(dangerous_patterns[k]) :
                              k \in 1..Len(dangerous_patterns) } }
    \cup { Pad(MaxStartCmdLen - Len(dangerous_patterns[k])) \o dangerous_patterns[k] :
             k \in 1..Len(dangerous_patterns) }
    \cup { <<"c","u","r","l"," ","x"," ","|"," ","y">>, <<"W","G","E","T"," ","x","|","y">> }

\* names a client may give an upload, after the directories it may put first
FilenameStems ==
    { <<"m","a","i","n",".","p","y">>, <<"a"," ","b",".","p","y">>,
      <<".",".">>, <<".",".",".",".">>, <<".",".",".">>, <<".","\\",".">>,
      <<"a",".","\\",".","b">>, <<"a","\\","b",".","p","y">>,
      <<".","h","i","d","d","e","n">>, <<>>, <<"x",".","z","i","p">>,
      <<"a",".",".","b">>, <<"\\">>, <<".">>, <<"a",".","b",".","c">>,
      <<"-","_">>, <<"e","%",".","p","y">>, <<".","\\",".",".">>,
      <<".",".","\\","e",".","p","y">> }

\* file names: the stems alone and behind a directory, and names around the
\* limit of 255 characters, one of which has a dot at the place of the cut
Filenames ==
    { pre \o stem : pre \in {<<>>, <<"d","/">>, <<".",".","/">>},
                    stem \in FilenameStems }
    \cup { Pad(MaxFilenameLen), Pad(MaxFilenameLen + 1),
           Pad(MaxFilenameLen + 1) \o <<".","p","y">>,
           <<".">> \o Pad(MaxFilenameLen + 1),
           Pad(FilenameStemLen) \o <<".">> \o Pad(MaxFilenameLen),
           Pad(FilenameStemLen - 1) \o <<".">> \o Pad(4) \o <<".","p","y">> }

\* container.status as the daemon reports it
DockerStates ==
    {"created", "running", "paused", "restarting", "removing", "exited", "dead"}

\* one call of a function: the worker holds the function's name and argument
Calling(fn, arg) ==
    [w \in Workers |->
        IF w = "w1" THEN [Idle EXCEPT !.pc = "call", !.op = fn, !.body = arg]
        ELSE Idle]

\* the calls of the driver that act on a container
DriverCalls ==
    {"start_container", "stop_container", "restart_container", "remove_container"}

UtilInit ==
    /\ bots = <<>>
    /\ nextBotId = 1
    /\ nextCid = 1
    /\ dirs = <<>>
    /\ last = NoResponse
    /\ cycle = <<>>
    /\ \/ /\ containers = <<>>
          /\ \/ \E command \in Commands :
                   req = Calling("validate_start_command", command)
             \/ \E filename \in Filenames :
                   req = Calling("sanitize_filename", filename)
             \/ req = Calling("get_container_status", 1)
       \/ \E state \in DockerStates, code \in ExitCodes :
             /\ containers = (1 :> [name |-> 1, state |-> state,
                                    exit_code |-> code, log |-> 0])
             /\ req = Calling("get_container_status", 1)
       \/ \E fn \in DriverCalls, state \in DockerStates, h \in {1, 2} :
             /\ containers = (1 :> [name |-> 1, state |-> state,
                                    exit_code |-> 0, log |-> 0])
             /\ req = Calling(fn, h)

\* the function returns: its name, its argument, whether the daemon failed
\* the call, and the result
Return(fault, result) ==
    /\ last' = [op |-> req["w1"].op, arg |-> req["w1"].body, fault |-> fault,
                result |-> result]
    /\ req' = [w \in Workers |-> Idle]
    /\ UNCHANGED <<bots, nextBotId, containers, nextCid, dirs, cycle>>

call_validate_start_command ==
    /\ req["w1"].pc = "call"
    /\ req["w1"].op = "validate_start_command"
    /\ Return(FALSE, validate_start_command(req["w1"].body))

call_sanitize_filename ==
    /\ req["w1"].pc = "call"
    /\ req["w1"].op = "sanitize_filename"
    /\ Return(FALSE, sanitize_filename(req["w1"].body))

\* start_container, stop_container, restart_container and remove_container
\* on the handle the worker holds; fault is an APIError of the daemon.  The
\* result is kept with the fact whether the container was there (present).
call_driver ==
    /\ req["w1"].pc = "call"
    /\ req["w1"].op \in DriverCalls
    /\ \E fault \in BOOLEAN :
         LET h == req["w1"].body
             r == CASE req["w1"].op = "start_container" -> start_container(h, fault)
                    [] req["w1"].op = "stop_container" -> stop_container(h, fault)
                    [] req["w1"].op = "restart_container" ->
                           restart_container(h, fault)
                    [] req["w1"].op = "remove_container" ->
                           remove_container(h, fault)
         IN  /\ fault => h \in DOMAIN containers
             /\ containers' = r.containers
             /\ last' = [op |-> req["w1"].op, arg |-> h, fault |-> fault,
                         result |-> r.ok, present |-> h \in DOMAIN containers]
             /\ req' = [w \in Workers |-> Idle]
    /\ UNCHANGED <<bots, nextBotId, nextCid, dirs, cycle>>

\* get_container_status, lines 264-285; fault is an APIError of the daemon,
\* which reads as STOPPED
call_get_container_status ==
    /\ req["w1"].pc = "call"
    /\ req["w1"].op = "get_container_status"
    /\ \E fault \in BOOLEAN :
          Return(fault, IF fault THEN "STOPPED"
                        ELSE get_container_status(req["w1"].body))

\* ------------------------------------------------------------ specifications
\* requests served one after the other by a single worker
Next ==
    \/ create_bot("w1", MaxBotId, Tenants, CreateBodies)
    \/ upload_bot_files("w1", MaxBotId, Uploads)
    \/ start_bot("w1", MaxBotId)
    \/ stop_bot("w1", MaxBotId)
    \/ restart_bot("w1", MaxBotId)
    \/ delete_bot("w1", MaxBotId)

Spec == Init /\ [][Next]_vars

\* two workers serving requests on the same bots
ConcNext ==
    \E w \in Workers :
        \/ create_bot(w, MaxConcBotId, UserIds, CreateBodies)
        \/ upload_bot_files(w, MaxConcBotId, Uploads)
        \/ start_bot(w, MaxConcBotId)
        \/ stop_bot(w, MaxConcBotId)
        \/ restart_bot(w, MaxConcBotId)
        \/ delete_bot(w, MaxConcBotId)

ConcSpec == Init /\ [][ConcNext]_vars

\* two workers creating and deleting bots
QuotaNext ==
    \E w \in Workers :
        \/ create_bot(w, MaxQuotaBotId, UserIds, CreateBodies)
        \/ delete_bot(w, MaxQuotaBotId)

QuotaSpec == Init /\ [][QuotaNext]_vars

\* the uploads of DriftSpec: a source file the runtime may or may not allow
DriftUploads == {p \in Uploads : p.filename = MainPy}

\* one worker creating bots and taking uploads of every kind
UploadNext ==
    \/ create_bot("w1", MaxUploadBotId, Tenants, CreateBodies)
    \/ upload_bot_files("w1", MaxUploadBotId, Uploads \cup HostileUploads)

UploadSpec == Init /\ [][UploadNext]_vars

\* one worker, and a daemon and a file system that also change by themselves
\* Two workers, one of them serving starts only, with delete_bot taken call
\* by call.
RaceNext ==
    \/ create_bot("w2", MaxRaceBotId, Tenants, CreateBodies)
    \/ upload_bot_files("w2", MaxRaceBotId, DriftUploads)
    \/ \E w \in Workers : start_bot(w, MaxRaceBotId)
    \/ \E u \in UserIds, b \in 1..MaxRaceBotId : delete_bot_verify("w2", u, b)
    \/ delete_bot_remove("w2")
    \/ delete_bot_row("w2")

RaceSpec == Init /\ [][RaceNext]_vars

\* The handlers on a storage tree whose directories may hold the sentinel.
KeepNext ==
    \/ create_bot("w1", MaxKeepBotId, Tenants, CreateBodies)
    \/ upload_bot_files("w1", MaxKeepBotId, DriftUploads)
    \/ start_bot("w1", MaxKeepBotId)
    \/ delete_bot("w1", MaxKeepBotId)
    \/ sentinel_placed

KeepSpec == Init /\ [][KeepNext]_vars

DriftNext ==
    \/ create_bot("w1", MaxDriftBotId, Tenants, CreateBodies)
    \/ upload_bot_files("w1", MaxDriftBotId, DriftUploads)
    \/ start_bot("w1", MaxDriftBotId)
    \/ stop_bot("w1", MaxDriftBotId)
    \/ delete_bot("w1", MaxDriftBotId)
    \/ list_bots("w1")
    \/ sandbox_exit
    \/ sandbox_vanish
    \/ storage_vanish

DriftSpec == Init /\ [][DriftNext]_vars

\* one server process serving requests ("w1") and one log subscriber ("w2")
\* on its event loop, which serves no request while it is held
LogRequests ==
    \/ ~LoopBlocked /\ create_bot("w1", MaxLogBotId, Tenants, CreateBodies)
    \/ ~LoopBlocked /\ upload_bot_files("w1", MaxLogBotId, DriftUploads)
    \/ ~LoopBlocked /\ start_bot("w1", MaxLogBotId)
    \/ ~LoopBlocked /\ delete_bot("w1", MaxLogBotId)

LogNext ==
    \/ LogRequests
    \/ bot_logs_websocket("w2", MaxLogBotId)
    \/ subscriber_disconnect("w2")
    \/ sandbox_print

LogSpec == Init /\ [][LogNext]_vars

\* LogSpec with the scheduling of the event loop, which runs the tasks that
\* are ready in turn: a log session that is ready to ask for its next line
\* again and again does so, and inside the read it takes the step the
\* generator allows; a handler of bots.py that has begun runs to its end;
\* start requests keep arriving, so that one is served when the loop is
\* free to serve it.  Nothing makes a sandbox write, a subscriber hang up,
\* or the daemon fail.
LogFairSpec ==
    /\ Init
    /\ [][LogNext]_vars
    /\ SF_vars(bot_logs_websocket_next("w2"))
    /\ WF_vars(bot_logs_websocket_line("w2"))
    /\ WF_vars(bot_logs_websocket_return("w2"))
    /\ WF_vars(~LoopBlocked /\ start_bot("w1", MaxLogBotId))
    /\ []<>(req["w1"].pc = "idle")

\* one worker creating and deleting bots, with start commands of every kind
CreateNext ==
    \/ create_bot("w1", MaxCreateBotId, Tenants, CreateBodies \cup CommandBodies)
    \/ delete_bot("w1", MaxCreateBotId)

CreateSpec == Init /\ [][CreateNext]_vars

\* the functions of utils.py and get_container_status, each applied once to
\* an input
UtilNext ==
    \/ call_validate_start_command
    \/ call_sanitize_filename
    \/ call_get_container_status
    \/ call_driver

UtilSpec == UtilInit /\ [][UtilNext]_vars

\* ------------------------------------------------------------ claims
BotOps == {"upload", "start", "stop", "restart", "delete"}

Answered == last # NoResponse

BotsOf(u) == {b \in DOMAIN bots : bots[b].user_id = u}

SandboxesOf(b) == {c \in DOMAIN containers : containers[c].name = b}

\* C1: every persisted bot whose sandbox handle is null has state CREATED.
C1_NullHandleIsCreated ==
    \A b \in DOMAIN bots :
        bots[b].container_id = None => bots[b].status = "CREATED"

\* C2: the number of bots a user owns never exceeds the max_bots of the plan
\* assigned to any of that user's bots.
C2_BotCountWithinPlan ==
    \A b \in DOMAIN bots :
        Cardinality(BotsOf(bots[b].user_id)) <= Plans[bots[b].plan_id].max_bots

\* C3: operations on one bot are serialized, so once no request is in
\* service a start that passed its checks and met no failure of the daemon
\* has left the bot RUNNING, as it does when the requests run one after the
\* other (two concurrent starts of a bot without a handle end in RUNNING).
C3_StartsSerialized ==
    ( /\ \A w \in Workers : req[w].pc = "idle"
      /\ last.op = "start"
      /\ last.calls # <<>>
      /\ ~last.fault
      /\ RowPresent(last.bot) )
    => /\ last.code = 200
       /\ bots[last.bot].status = "RUNNING"

\* the caller of the answered request owns the bot it named
ByOwner ==
    /\ last.bot \in DOMAIN bots
    /\ bots[last.bot].user_id = last.user

\* where bot_path / path lands: outside the bot's directory when the path is
\* absolute or its ".." parts climb above the directory
RECURSIVE Climbs(_, _)
Climbs(parts, depth) ==
    IF parts = <<>> THEN FALSE
    ELSE IF Head(parts) = <<".", ".">>
    THEN depth = 0 \/ Climbs(Tail(parts), depth - 1)
    ELSE Climbs(Tail(parts), depth + 1)

Escapes(path) == IsAbsolute(path) \/ Climbs(PathParts(path), 0)

\* the upload worker w is about to store
IsArchive(w) ==
    EndsWith(sanitize_filename(IF req[w].body.payload.filename = <<>>
                               THEN DefaultUploadName
                               ELSE req[w].body.payload.filename),
             <<".","z","i","p">>)

\* C4: an upload, start, stop, restart or delete on a bot id that does not
\* exist is answered 404, and on a bot of another user 403; either way the
\* bots table, the containers and the storage directories stay as they were.
C4_ForeignOrMissingBotRejected ==
    [][ (last' # NoResponse /\ last'.op \in BotOps) =>
           /\ last'.bot \notin DOMAIN bots =>
                  /\ last'.code = 404
                  /\ UNCHANGED <<bots, containers, dirs>>
           /\ (last'.bot \in DOMAIN bots /\ bots[last'.bot].user_id # last'.user) =>
                  /\ last'.code = 403
                  /\ UNCHANGED <<bots, containers, dirs>> ]_vars

\* a delete by a stranger was answered 403 and the bot, with its container
\* and its files, is still there
C4_Witness ==
    /\ last.op = "delete"
    /\ last.code = 403
    /\ last.bot \in DOMAIN bots
    /\ bots[last.bot].user_id # last.user
    /\ bots[last.bot].container_id \in DOMAIN containers
    /\ dirs[last.bot] # {}

\* C5 as stated: what a caller is told about a bot of another user is what
\* the caller would be told if the bot did not exist.
C5_NoExistenceLeak ==
    ( /\ last.op \in BotOps
      /\ last.bot \in DOMAIN bots
      /\ bots[last.bot].user_id # last.user )
    => last.code = verify_bot_ownership(Remove(bots, last.bot), last.bot, last.user)

\* C5 amended: a caller is told of a bot of another user that it exists and
\* nothing else: the answer is 403 whatever the bot's status, handle, source
\* and files, and the driver is not called.
C5_OnlyExistenceRevealed ==
    ( /\ last.op \in BotOps
      /\ last.bot \in DOMAIN bots
      /\ bots[last.bot].user_id # last.user )
    => /\ last.code = 403
       /\ last.calls = <<>>
       /\ ~last.fault

\* a stranger asked to stop a bot that has no container and was told 403,
\* not the 400 its owner would get
C5_Witness ==
    /\ last.op = "stop"
    /\ last.code = 403
    /\ last.bot \in DOMAIN bots
    /\ bots[last.bot].user_id # last.user
    /\ bots[last.bot].container_id = None

\* C6: a start let through by the checks creates a container exactly when
\* the row holds no handle, and the handle is in the row before the
\* container is started; when every driver call succeeds the answer is 200
\* and the row says RUNNING, and when the creation or the start fails the
\* answer is 400 and the row says CRASHED.
C6_StartOutcome ==
    /\ \A w \in Workers :
          /\ req[w].pc = "start_create" => bots[req[w].bot].container_id = None
          /\ req[w].pc = "start_run" =>
                 /\ req[w].h # None
                 /\ bots[req[w].bot].container_id = req[w].h
                 /\ req[w].h \in DOMAIN containers
                 /\ containers[req[w].h].name = req[w].bot
    /\ (last.op = "start" /\ last.calls # <<>>) =>
          LET b == last.bot
              calls == last.calls
          IN  /\ b \in DOMAIN bots
              /\ calls[Len(calls)].ok =>
                     /\ calls[Len(calls)].fn = "start"
                     /\ last.code = 200
                     /\ bots[b].status = "RUNNING"
                     /\ bots[b].container_id \in DOMAIN containers
                     /\ containers[bots[b].container_id].state = "running"
              /\ ~calls[Len(calls)].ok =>
                     /\ last.code = 400
                     /\ bots[b].status = "CRASHED"
              /\ (calls[1].fn = "create" /\ calls[1].ok) =>
                     /\ Len(calls) = 2
                     /\ bots[b].container_id \in DOMAIN containers

\* the container was created and its handle stored, the start then failed:
\* 400, CRASHED, handle kept
C6_Witness ==
    /\ last.op = "start"
    /\ last.calls = <<Call("create", TRUE), Call("start", FALSE)>>
    /\ last.code = 400
    /\ last.bot \in DOMAIN bots
    /\ bots[last.bot].status = "CRASHED"
    /\ bots[last.bot].container_id \in DOMAIN containers

\* C7: a start by the owner of a bot whose storage directory is empty is
\* answered 400 without a call to the driver; no container appears and the
\* row keeps its status and its handle.
C7_EmptyDirStartRejected ==
    [][ ( /\ last' # NoResponse
          /\ last'.op = "start"
          /\ last'.bot \in DOMAIN bots
          /\ bots[last'.bot].user_id = last'.user
          /\ (last'.bot \in DOMAIN dirs => dirs[last'.bot] = {}) )
        => /\ last'.code = 400
           /\ last'.calls = <<>>
           /\ UNCHANGED <<bots, containers, nextCid>> ]_vars

\* the owner's start of a fresh bot without files was answered 400 and the
\* bot is still CREATED without a handle
C7_Witness ==
    /\ last.op = "start"
    /\ last.code = 400
    /\ last.calls = <<>>
    /\ ByOwner
    /\ dirs[last.bot] = {}
    /\ bots[last.bot].status = "CREATED"
    /\ bots[last.bot].container_id = None
    /\ containers = <<>>

\* C8: a stop or restart that the driver fails is answered 400 and leaves
\* the bots table as it was; a stop or restart of a bot without a handle is
\* answered 400 without a call to the driver and changes nothing.
C8_StopRestartFailureKeepsRow ==
    [][ ( /\ last' # NoResponse
          /\ last'.op \in {"stop", "restart"}
          /\ last'.bot \in DOMAIN bots
          /\ bots[last'.bot].user_id = last'.user )
        => /\ bots[last'.bot].container_id = None =>
                  /\ last'.code = 400
                  /\ last'.calls = <<>>
                  /\ UNCHANGED <<bots, containers, dirs>>
           /\ (last'.calls # <<>> /\ ~last'.calls[1].ok) =>
                  /\ last'.code = 400
                  /\ UNCHANGED bots ]_vars

\* the driver failed to stop a RUNNING bot: 400, and the bot still RUNNING
C8_Witness ==
    /\ last.op = "stop"
    /\ last.code = 400
    /\ last.calls = <<Call("stop", FALSE)>>
    /\ ByOwner
    /\ bots[last.bot].status = "RUNNING"

\* C9: while the owner's start, stop, start on a bot with files meet a
\* cooperating daemon, the row says RUNNING after the first start, STOPPED
\* after the stop and RUNNING after the second start; the handle is the one
\* the first start left, the bot has that one container, and the second
\* start calls the driver's start only.
C9_StartStopStart ==
    \A b \in DOMAIN bots \cap DOMAIN cycle :
        LET c == cycle[b]
        IN  /\ c.phase \in {1, 3} => bots[b].status = "RUNNING"
            /\ c.phase = 2 => bots[b].status = "STOPPED"
            /\ c.phase # 0 =>
                   /\ c.h # None
                   /\ bots[b].container_id = c.h
                   /\ SandboxesOf(b) = {c.h}
            /\ (c.phase \in {1, 3} /\ last.op = "start" /\ last.bot = b /\ ByOwner) =>
                   last.code = 200
            /\ (c.phase = 3 /\ last.op = "start" /\ last.bot = b /\ ByOwner) =>
                   last.calls = <<Call("start", TRUE)>>

\* start, stop, start has run to its end on some bot
C9_Witness ==
    \E b \in DOMAIN bots \cap DOMAIN cycle :
        /\ cycle[b].phase = 3
        /\ bots[b].status = "RUNNING"
        /\ last.op = "start"
        /\ last.bot = b
        /\ ByOwner
        /\ last.calls = <<Call("start", TRUE)>>

\* C10: the owner's stop of a bot that is already STOPPED, met by a
\* cooperating daemon, is answered 200, leaves the row STOPPED and still
\* calls the driver's stop.
C10_StopIdempotent ==
    ( /\ last.op = "stop"
      /\ last.was = "STOPPED"
      /\ ByOwner
      /\ ~last.fault )
    => /\ last.code = 200
       /\ bots[last.bot].status = "STOPPED"
       /\ last.calls = <<Call("stop", TRUE)>>

\* a STOPPED bot was stopped again
C10_Witness ==
    /\ last.op = "stop"
    /\ last.was = "STOPPED"
    /\ ByOwner
    /\ last.code = 200
    /\ last.calls = <<Call("stop", TRUE)>>
    /\ bots[last.bot].status = "STOPPED"
    /\ containers[bots[last.bot].container_id].state = "exited"

\* C11: no container and no storage directory outlives its bot: every
\* container of the daemon and every storage directory belongs to a bot whose
\* row is in the table.
C11_NoOrphans ==
    /\ \A c \in DOMAIN containers : containers[c].name \in DOMAIN bots
    /\ \A d \in DOMAIN dirs : d \in DOMAIN bots

C13_RejectedArchiveWritesNothing ==
    [][ \A w \in Workers :
          ( /\ req[w].pc = "upload_store"
            /\ req'[w].pc = "idle"
            /\ IsArchive(w)
            /\ req[w].body.payload.is_zip
            /\ \E m \in req[w].body.payload.members :
                   MemberRejected(m, req[w].body.runtime)
            /\ Mkdir(dirs, req[w].bot)[req[w].bot] = {} )
          => /\ last'.code = 400
             /\ dirs'[req[w].bot] = {} ]_vars

\* C14: an upload that is answered 400 leaves the storage directory and the
\* bots table (source_type) as they were before it.
C14_RejectedUploadChangesNothing ==
    [][ \A w \in Workers :
          ( /\ req[w].pc = "upload_store"
            /\ req'[w].pc = "idle"
            /\ last'.code = 400 )
          => /\ dirs' = Mkdir(dirs, req[w].bot)
             /\ bots' = bots ]_vars

\* C15: every file in a bot's storage directory has an extension its
\* runtime allows, or no extension.
C15_StoredExtensionsAllowed ==
    \A b \in DOMAIN dirs \cap DOMAIN bots :
        \A f \in dirs[b] :
            \/ EndsWith(f, <<"/">>)
            \/ Suffix(f) = <<>>
            \/ Suffix(f) \in allowed_extensions(bots[b].runtime)

\* C16: whatever the client names the upload or the members of its archive,
\* every path written lies inside the bot's storage directory.
C16_NothingOutsideRoot ==
    \A b \in DOMAIN dirs : \A f \in dirs[b] : ~Escapes(f)

\* an upload named ../e.py was accepted and stored as e.py in the directory
C16_Witness ==
    /\ last.op = "upload"
    /\ last.code = 200
    /\ last.bot \in DOMAIN dirs
    /\ dirs[last.bot] = {sanitize_filename(EvilPy)}
    /\ Escapes(EvilPy)
    /\ bots[last.bot].source_type = "file"

\* C17: no two bots of one owner have the same name.
C17_NamesUniquePerOwner ==
    \A b1, b2 \in DOMAIN bots :
        (b1 # b2 /\ bots[b1].user_id = bots[b2].user_id)
            => bots[b1].name # bots[b2].name

\* C18: a listing shows as CRASHED, not RUNNING, every bot of the caller
\* whose row says RUNNING while its container has exited with an exit code
\* that is not 0.
C18_ListReconciles ==
    last.op = "list" =>
        \A b \in DOMAIN last.listing :
            ( /\ b \in DOMAIN bots
              /\ bots[b].status = "RUNNING"
              /\ bots[b].container_id \in DOMAIN containers
              /\ containers[bots[b].container_id].state = "exited"
              /\ containers[bots[b].container_id].exit_code # 0 )
            => /\ get_container_status(bots[b].container_id) = "CRASHED"
               /\ last.listing[b] = "CRASHED"

\* frames that carry output of the container
LogFrames(frames) == SelectSeq(frames, LAMBDA f : f.fn \in {"recent", "line"})

\* C19: a log session whose token resolves to no user, or whose user does
\* not own the bot, is closed with 1008 and is sent nothing of the log.
C19_UnauthorizedSubscriberRefused ==
    ( /\ last.op = "logs"
      /\ \/ last.user = None
         \/ ~ByOwner )
    => /\ last.code = PolicyViolation
       /\ LogFrames(last.calls) = <<>>

\* C20: an error raised while the log is streamed is sent to the subscriber
\* as one text frame, after which the session is closed with 1011.
C20_StreamErrorCloses1011 ==
    [][ \A w \in Workers :
          ( /\ req[w].pc = "logs_read"
            /\ req'[w].pc = "idle"
            /\ last'.fault )
          => /\ last'.calls = req[w].calls \o <<Frame("error", <<>>)>>
             /\ last'.code = InternalError ]_vars

\* the log lines a sequence of frames carries, in the order of delivery
RECURSIVE Delivered(_)
Delivered(frames) ==
    IF frames = <<>> THEN <<>>
    ELSE (IF Head(frames).fn \in {"recent", "line"}
          THEN Head(frames).lines ELSE <<>>) \o Delivered(Tail(frames))

InOrder(lines) == \A i, j \in DOMAIN lines : i < j => lines[i] <= lines[j]

\* C21: the log lines delivered to one subscriber come in the order the
\* sandbox wrote them: across the preamble and the live stream no line is
\* delivered after a line written later than it.
C21_LogLinesInOrder ==
    /\ \A w \in Workers : InOrder(Delivered(req[w].calls))
    /\ last.op = "logs" => InOrder(Delivered(last.calls))

\* the text frames among the entries of a session's record
Sent(entries) ==
    SelectSeq(entries, LAMBDA e : e.fn \notin {"get_recent_logs", "stream_logs"})

\* the preamble is the first frame and is sent once
PreambleFirst(entries) ==
    LET f == Sent(entries)
    IN  /\ f # <<>>
        /\ f[1].fn = "recent"
        /\ \A i \in DOMAIN f : i > 1 => f[i].fn # "recent"

\* C22: a log session that has come to the streaming phase has sent the
\* preamble, once, and ahead of every line of the live stream, whatever the
\* recent logs hold.
C22_PreambleOnceFirst ==
    /\ \A w \in Workers :
          req[w].pc \in {"logs_stream", "logs_read"}
          => PreambleFirst(req[w].calls)
    /\ ( /\ last.op = "logs"
         /\ \E i \in DOMAIN last.calls : last.calls[i].fn = "stream_logs" )
       => PreambleFirst(last.calls)

\* C23: the owner of a bot that has no handle who subscribes to its log is
\* sent the one message that tells them to start the bot and is closed with
\* 1000; the driver is asked neither for recent logs nor for the stream.
C23_NoHandleClosedCleanly ==
    ( /\ last.op = "logs"
      /\ ByOwner
      /\ bots[last.bot].container_id = None )
    => /\ last.code = NormalClosure
       /\ last.calls = <<Frame("no_container", <<>>)>>

C23_Witness ==
    /\ last.op = "logs"
    /\ ByOwner
    /\ bots[last.bot].container_id = None
    /\ last.code = NormalClosure
    /\ Len(last.calls) = 1

\* C24: once the subscriber of a log session has hung up, the session's
\* iteration over the followed log ends, also when the sandbox keeps
\* running and writes nothing more.
C24_DisconnectEndsIteration ==
    \A w \in Workers : req[w].gone ~> (req[w].pc = "idle")

\* a log session is open on a sandbox that runs and has nothing more in its
\* log than the session has been given
SilentSession ==
    \E w \in Workers :
        /\ req[w].pc \in {"logs_stream", "logs_read"}
        /\ stream_logs(req[w].h, req[w].pos).kind = "block"

\* C25: an open log session on a running sandbox that writes nothing does
\* not hold up other requests: a request on a bot is still answered.
C25_StreamDoesNotBlockRequests ==
    SilentSession ~> (last.op \in BotOps \/ ~SilentSession)

\* C26: a create whose start_cmd fails validate_start_command is answered
\* 400 and leaves no row, so the start command of every row is either null
\* or one that validate_start_command accepts.
C26_StoredStartCmdValid ==
    \A b \in DOMAIN bots :
        bots[b].has_start_cmd => validate_start_command(bots[b].start_cmd)

\* the patterns a start command must not hold
DenyList ==
    { <<"&","&">>, <<"|","|">>, <<";">>, <<"|">>, <<">">>, <<"<">>, <<Backtick>>,
      <<"$","(">>, <<"b","a","s","h">>, <<"s","h"," ">>, <<"/","b","i","n","/">>,
      <<"r","m"," ">>, <<"d","d"," ">>, <<"m","k","f","s">> }

LowerStr(s) == [i \in 1..Len(s) |-> Lower(s[i])]

\* pat occurs in s
HasSub(s, pat) ==
    \E i \in 1..(Len(s) - Len(pat) + 1) : SubSeq(s, i, i + Len(pat) - 1) = pat

\* C27: validate_start_command accepts a command exactly when it is not
\* empty, has at most 500 characters, and holds none of the patterns of the
\* deny list in any mix of upper and lower case.
C27_StartCommandAccepted ==
    last.op = "validate_start_command"
    => ( last.result
         <=> /\ Len(last.arg) > 0
             /\ Len(last.arg) <= MaxStartCmdLen
             /\ \A pat \in DenyList : ~HasSub(LowerStr(last.arg), LowerStr(pat)) )

C27_Witness ==
    /\ last.op = "validate_start_command"
    /\ Len(last.arg) = MaxStartCmdLen
    /\ last.result

\* C28: sanitize_filename applied to its own result gives that result again.
C28_SanitizeIdempotent ==
    last.op = "sanitize_filename"
    => sanitize_filename(last.result) = last.result

\* C29: the result of sanitize_filename holds no "..", no "/", no "\" and no
\* character outside A-Z, a-z, 0-9, ".", "_", "-".
C29_SanitizedNameSafe ==
    last.op = "sanitize_filename"
    => /\ ~HasSub(last.result, <<".", ".">>)
       /\ ~HasSub(last.result, <<"/">>)
       /\ ~HasSub(last.result, <<"\\">>)
       /\ Chars(last.result) \subseteq SafeFilenameChars

\* C30: get_container_status maps running to RUNNING, created to CREATED,
\* exited and dead to CRASHED when the exit code is not 0 and to STOPPED when
\* it is, and every other state and a container that is gone to STOPPED.
C30_StatusMapping ==
    ( last.op = "get_container_status" /\ ~last.fault )
    => LET h == last.arg
           state == IF h \in DOMAIN containers
                    THEN containers[h].state ELSE "missing"
       IN  last.result =
             CASE state = "running" -> "RUNNING"
               [] state = "created" -> "CREATED"
               [] state \in {"exited", "dead"} ->
                    IF containers[h].exit_code # 0 THEN "CRASHED" ELSE "STOPPED"
               [] OTHER -> "STOPPED"

C30_Witness ==
    /\ last.op = "get_container_status"
    /\ ~last.fault
    /\ last.arg \in DOMAIN containers
    /\ containers[last.arg].state = "dead"
    /\ containers[last.arg].exit_code # 0
    /\ last.result = "CRASHED"

\* C31: on a container that is gone, remove_container reports success, and
\* start_container, stop_container and restart_container report failure and
\* leave the daemon without any container they would have made or started.
C31_MissingSandbox ==
    [][ ( /\ call_driver
          /\ req["w1"].body \notin DOMAIN containers )
        => /\ last'.result = (req["w1"].op = "remove_container")
           /\ containers' = containers ]_vars

C31_Witness ==
    /\ last.op = "restart_container"
    /\ ~last.present
    /\ ~last.result
    /\ containers # <<>>

\* C32: every container the daemon holds was created with all capabilities
\* dropped, not privileged, with no-new-privileges, on the bridge network,
\* with the memory limit of the bot's plan, and with the bot's directory as
\* its one volume, read-only, at the working directory of the runtime.
C32_SandboxConstraints ==
    \A c \in DOMAIN containers :
        LET cfg == containers[c].config
            b == containers[c].name
        IN  /\ cfg.cap_drop = {"ALL"}
            /\ cfg.privileged = FALSE
            /\ "no-new-privileges" \in cfg.security_opt
            /\ cfg.network_mode = "bridge"
            /\ b \in DOMAIN bots =>
                 /\ cfg.mem_limit = Plans[bots[b].plan_id].ram_limit
                 /\ cfg.working_dir = RUNTIME_REGISTRY[bots[b].runtime].working_dir
            /\ cfg.volumes = { [source |-> b, bind |-> cfg.working_dir,
                                mode |-> "ro"] }

C32_Witness ==
    \E c \in DOMAIN containers :
        /\ containers[c].state = "running"
        /\ containers[c].name \in DOMAIN bots
        /\ containers[c].config.mem_limit = "512m"

\* the operations that are audited, and the action each one records
Audited == {"create", "upload", "start", "stop", "restart", "delete"}

AuditAction(op) ==
    CASE op = "create" -> "bot_create"
      [] op = "upload" -> "bot_upload"
      [] op = "start" -> "bot_start"
      [] op = "stop" -> "bot_stop"
      [] op = "restart" -> "bot_restart"
      [] op = "delete" -> "bot_delete"

\* C33: a create, upload, start, stop, restart or delete that is answered
\* with success has written an audit row with the caller, the action and the
\* bot id; a request that is rejected or fails has written none.
C33_AuditOnSuccessOnly ==
    last.op \in Audited =>
        IF last.code \in {200, 201, 204}
        THEN last.audit = <<create_audit_log(last.user, AuditAction(last.op),
                                             last.bot)>>
        ELSE last.audit = <<>>

C33_Witness ==
    /\ last.op = "restart"
    /\ last.code = 200
    /\ last.audit # <<>>

\* the bot's directory holds the sentinel and nothing else
SentinelOnly(b) == b \in DOMAIN dirs /\ dirs[b] = {GitKeep}

\* C34: a start of a bot whose directory holds nothing but .gitkeep is
\* answered 400 and goes no further: no container is created or started.
C34_SentinelOnlyIsEmpty ==
    [][ \A u \in UserIds, b \in 1..MaxKeepBotId :
          ( /\ start_bot_verify("w1", u, b)
            /\ verify_bot_ownership(bots, b, u) = None
            /\ SentinelOnly(b) )
          => /\ last'.code = 400
             /\ req'["w1"].pc = "idle" ]_vars

\* a bot whose directory holds only the sentinel is running
C34_SentinelOnlyRuns ==
    \E b \in DOMAIN bots :
        /\ SentinelOnly(b)
        /\ bots[b].status = "RUNNING"
        /\ last.op = "start"
        /\ last.code = 200

\* C35: a handle a bot's row holds is the same after every step as long as
\* the row exists, and no step leaves the daemon with two containers of one
\* bot.
C35_HandleStable ==
    [][ /\ \A c, d \in DOMAIN containers' :
               containers'[c].name = containers'[d].name => c = d
        /\ \A b \in DOMAIN bots :
             ( /\ bots[b].container_id # None
               /\ b \in DOMAIN bots' )
             => bots'[b].container_id = bots[b].container_id ]_vars

\* C36: after every step a row in state RUNNING or STOPPED holds a handle,
\* and a row turns RUNNING only in the step of a start or restart of that
\* bot whose last driver call, start_container or restart_container,
\* reported success.
C36_RunningAfterDriverSuccess ==
    [][ \A b \in DOMAIN bots' :
          /\ bots'[b].status \in {"RUNNING", "STOPPED"}
               => bots'[b].container_id # None
          /\ ( /\ bots'[b].status = "RUNNING"
               /\ b \in DOMAIN bots => bots[b].status # "RUNNING" )
               => /\ last'.bot = b
                  /\ last'.op \in {"start", "restart"}
                  /\ last'.calls # <<>>
                  /\ last'.calls[Len(last'.calls)] = Call(last'.op, TRUE) ]_vars

C36_Witness ==
    /\ last.op = "restart"
    /\ last.was = "STOPPED"
    /\ last.bot \in DOMAIN bots
    /\ bots[last.bot].status = "RUNNING"

\* C37: a start of a bot none of whose uploads was accepted (source_type is
\* still unset) is answered 400 and leaves the row as it is: CREATED, without
\* a handle.
C37_NoStartWithoutUpload ==
    [][ \A u \in UserIds, b \in 1..MaxBotId :
          ( /\ start_bot_verify("w1", u, b)
            /\ verify_bot_ownership(bots, b, u) = None
            /\ bots[b].source_type = "none" )
          => /\ last'.code = 400
             /\ req'["w1"].pc = "idle"
             /\ bots' = bots ]_vars

\* a bot that never had an accepted upload is running
C37_RunsRejectedUpload ==
    \E b \in DOMAIN bots :
        /\ bots[b].source_type = "none"
        /\ bots[b].status = "RUNNING"
        /\ bots[b].container_id \in DOMAIN containers

\* the step is an upload for bot b that was answered 200
UploadAccepted(b) ==
    /\ last'.op = "upload"
    /\ last'.bot = b
    /\ last'.code = 200

\* C38: source_type is set by accepted uploads and by nothing else, to the
\* kind of the upload, and while it is set no step but an accepted upload
\* changes what the bot's directory holds.
C38_SourceTypeDescribesDirectory ==
    [][ \A b \in DOMAIN bots \cap DOMAIN bots' :
          /\ UploadAccepted(b) => bots'[b].source_type \in {"zip", "file"}
          /\ ~UploadAccepted(b) =>
               /\ bots'[b].source_type = bots[b].source_type
               /\ bots[b].source_type # "none" =>
                    /\ b \in DOMAIN dirs'
                    /\ dirs'[b] = dirs[b] ]_vars

\* source_type says a file was uploaded and the directory holds no file
C38_SourceTypeOfEmptyDirectory ==
    \E b \in DOMAIN bots :
        /\ bots[b].source_type = "file"
        /\ b \in DOMAIN dirs
        /\ dirs[b] = {}
        /\ last.op = "upload"
        /\ last.code = 400

\* C39: a log session of a user whose row says SUSPENDED gets no frame that
\* carries log lines, neither the recent lines nor a line of the stream.
C39_SuspendedGetsNoLogs ==
    \A w \in Workers :
        ( /\ req[w].op = "logs"
          /\ req[w].body.status = "SUSPENDED" )
        => \A i \in DOMAIN req[w].calls :
               req[w].calls[i].fn \notin {"recent", "line"}

\* a suspended user's session has received a line of the stream
C39_SuspendedReadsStream ==
    \E w \in Workers :
        /\ req[w].op = "logs"
        /\ req[w].body.status = "SUSPENDED"
        /\ \E i \in DOMAIN req[w].calls : req[w].calls[i].fn = "line"

\* the characters at which sh -c ends one command and begins another
Separators == {";", "|", "&", "\n"}

\* C40: a start command that validate_start_command accepts holds no
\* character that separates commands, so that sh -c runs it as one command
\* after the build command.
C40_AcceptedIsSingleCommand ==
    ( /\ last.op = "validate_start_command"
      /\ last.result )
    => \A i \in 1..Len(last.arg) : last.arg[i] \notin Separators

\* a command of two lines is accepted
C40_TwoLinesAccepted ==
    /\ last.op = "validate_start_command"
    /\ last.result
    /\ \E i \in 1..Len(last.arg) : last.arg[i] = "\n"

====
